---------------------------- MODULE Spec2Model ----------------------------
(***************************************************************************)
(* Insight Vault: the ingestion and classification pipeline.               *)
(*                                                                         *)
(* Spec models server v3.0 (src/unnamed/part_001) with its Drive module    *)
(* (src/unnamed/part_000): the upload, youtube and playlist handlers, the  *)
(* operator's confirm and reclassify, the items and classification_log     *)
(* tables, the local upload directory and the remote folder.               *)
(*                                                                         *)
(* Every handler is cut at its awaits on external services (Drive, the     *)
(* reasoning service, the video metadata source): between two awaits a     *)
(* handler runs to completion, and handlers of distinct requests           *)
(* interleave at the awaits only, as on the single JavaScript thread.      *)
(*                                                                         *)
(* Strings that the code takes apart (file names, urls) are sequences of   *)
(* tokens; texts are a source and a length, so that slice is a cut of the  *)
(* length; numbers with decimals (confidence) are in hundredths.           *)
(***************************************************************************)
EXTENDS Integers, Sequences, FiniteSets, TLC

VARIABLES
  env,                \* process.env as read at start
  driveEnabled,       \* part_001:72, the result of drive.init()
  items,              \* table items, rows in insertion order
  classification_log, \* table classification_log, rows in insertion order
  localFiles,         \* the files in UPLOAD_DIR, each a name and its bytes
  driveFiles,         \* blobs in the remote folder
  uuidCount,          \* how many uuidv4() values were drawn
  uploads,            \* POST /upload requests, in arrival order
  youtubes,           \* POST /youtube requests
  playlists,          \* POST /youtube/playlist requests
  patches,            \* PATCH confirm / reclassify requests (all synchronous)
  openaiCalls,        \* how many requests reached the reasoning service
  now,                \* datetime('now'), in seconds since the start
  fetches,            \* GET /items/:id/file requests
  listings            \* GET /vault requests

vars == << env, driveEnabled, items, classification_log, localFiles, driveFiles,
           uuidCount, uploads, youtubes, playlists, patches, openaiCalls,
           now, fetches, listings >>

-----------------------------------------------------------------------------
(* Bounds of the model *)

\* requests (of any kind) that arrive in one run
MaxReqs == 2

\* operator requests (confirm, reclassify) in one run
MaxPatches == 1

\* requests for an item's file in one run
MaxFetches == 1

\* seconds the clock runs
MaxNow == 2

\* ingestions in one run in which the clock runs and files are asked for
MaxServed == 1

\* requests for the listing in one run
MaxListings == 1

(* Program constants *)

\* text.slice(0, 4000) in the prompt of v2.2, src/backend/server.js:531
V2PromptCap == 4000


\* extractText keeps the first 15000 characters
ExtractCap == 15000

\* the items row keeps the first 5000 characters of the text
RowTextCap == 5000

\* the prompt holds the first 8000 characters of the text
PromptCap == 8000

\* SQL NULL, JavaScript null and undefined, for string-valued fields
NULL == "null"

-----------------------------------------------------------------------------
(* The taxonomy, part_001:96-282 *)

PILLARS ==
  <<
    [ id |-> "P1", name_en |-> "Personal Development & Effectiveness", name_pt |-> "Desenvolvimento Pessoal & Eficácia",
      topics |-> <<
        [id |-> "P1.01", name |-> "Desenvolvimento"], [id |-> "P1.02", name |-> "Desenvolvimento pessoal"],
        [id |-> "P1.03", name |-> "Melhoria contínua"], [id |-> "P1.04", name |-> "Lifelong learning"],
        [id |-> "P1.05", name |-> "Aprendizagem"], [id |-> "P1.06", name |-> "Conhecimento"],
        [id |-> "P1.07", name |-> "Proatividade"], [id |-> "P1.08", name |-> "Eficácia"],
        [id |-> "P1.09", name |-> "Eficiência"], [id |-> "P1.10", name |-> "Gestão de tempo"],
        [id |-> "P1.11", name |-> "Time management"], [id |-> "P1.12", name |-> "Disciplina"],
        [id |-> "P1.13", name |-> "Hábitos"], [id |-> "P1.14", name |-> "Excelência"],
        [id |-> "P1.15", name |-> "Organização"], [id |-> "P1.16", name |-> "Foco"],
        [id |-> "P1.17", name |-> "Deep work"], [id |-> "P1.18", name |-> "Resiliência"],
        [id |-> "P1.19", name |-> "Grit"], [id |-> "P1.20", name |-> "Persistência"],
        [id |-> "P1.21", name |-> "Perseverança"], [id |-> "P1.22", name |-> "Consistência"],
        [id |-> "P1.23", name |-> "Mentalidade de crescimento"], [id |-> "P1.24", name |-> "Growth Mindset"],
        [id |-> "P1.25", name |-> "Crescimento"], [id |-> "P1.26", name |-> "Performance"],
        [id |-> "P1.27", name |-> "Pensamento crítico"], [id |-> "P1.28", name |-> "Método científico"]
      >> ],
    [ id |-> "P2", name_en |-> "Health, Wellbeing & Spirituality", name_pt |-> "Saúde, Bem-estar & Espiritualidade",
      topics |-> <<
        [id |-> "P2.01", name |-> "Equilíbrio"], [id |-> "P2.02", name |-> "Saúde física"],
        [id |-> "P2.03", name |-> "Ginástica e treinos"], [id |-> "P2.04", name |-> "Nutrição & suplementação"],
        [id |-> "P2.05", name |-> "Sono"], [id |-> "P2.06", name |-> "Saúde mental"],
        [id |-> "P2.07", name |-> "Terapia"], [id |-> "P2.08", name |-> "Inteligência Emocional"],
        [id |-> "P2.09", name |-> "Autoconhecimento"], [id |-> "P2.10", name |-> "Lazer"],
        [id |-> "P2.11", name |-> "Hobbies"], [id |-> "P2.12", name |-> "Bem-estar"],
        [id |-> "P2.13", name |-> "Espiritualidade & religião"], [id |-> "P2.14", name |-> "Gestão de estresse"],
        [id |-> "P2.15", name |-> "Energia"], [id |-> "P2.16", name |-> "Vitalidade"],
        [id |-> "P2.17", name |-> "Longevidade"], [id |-> "P2.18", name |-> "Conexão"],
        [id |-> "P2.19", name |-> "Meditação"], [id |-> "P2.20", name |-> "Paz interior"],
        [id |-> "P2.21", name |-> "Escuta do coração"], [id |-> "P2.22", name |-> "Transcendência"],
        [id |-> "P2.23", name |-> "Consciência"], [id |-> "P2.24", name |-> "Propósito"],
        [id |-> "P2.25", name |-> "Sentido"], [id |-> "P2.26", name |-> "Felicidade"],
        [id |-> "P2.27", name |-> "Happiness"], [id |-> "P2.28", name |-> "Gratidão"],
        [id |-> "P2.29", name |-> "Humanidade"], [id |-> "P2.30", name |-> "Otimismo"],
        [id |-> "P2.31", name |-> "Vulnerabilidade"], [id |-> "P2.32", name |-> "Sabedoria"],
        [id |-> "P2.33", name |-> "Realização"]
      >> ],
    [ id |-> "P3", name_en |-> "Attitude & Image", name_pt |-> "Atitude & Imagem",
      topics |-> <<
        [id |-> "P3.01", name |-> "Atitude"], [id |-> "P3.02", name |-> "Postura"],
        [id |-> "P3.03", name |-> "Postura profissional"], [id |-> "P3.04", name |-> "Imagem"],
        [id |-> "P3.05", name |-> "Imagem pública"], [id |-> "P3.06", name |-> "Mídias sociais"],
        [id |-> "P3.07", name |-> "Reputação"], [id |-> "P3.08", name |-> "Vestuário"],
        [id |-> "P3.09", name |-> "Marca pessoal"], [id |-> "P3.10", name |-> "Identidade"],
        [id |-> "P3.11", name |-> "Autenticidade"], [id |-> "P3.12", name |-> "Inovação"],
        [id |-> "P3.13", name |-> "Flexibilidade"], [id |-> "P3.14", name |-> "Criatividade"]
      >> ],
    [ id |-> "P4", name_en |-> "Relationships, Communication & Sales", name_pt |-> "Relacionamentos, Comunicação & Vendas",
      topics |-> <<
        [id |-> "P4.01", name |-> "Relacionamentos"], [id |-> "P4.02", name |-> "Amizades"],
        [id |-> "P4.03", name |-> "Comunidades"], [id |-> "P4.04", name |-> "Networking"],
        [id |-> "P4.05", name |-> "Comunicação"], [id |-> "P4.06", name |-> "Comunicação não violenta"],
        [id |-> "P4.07", name |-> "Escuta"], [id |-> "P4.08", name |-> "Escuta ativa"],
        [id |-> "P4.09", name |-> "Empatia"], [id |-> "P4.10", name |-> "Rapport"],
        [id |-> "P4.11", name |-> "Oratória"], [id |-> "P4.12", name |-> "Influência"],
        [id |-> "P4.13", name |-> "Persuasão"], [id |-> "P4.14", name |-> "Negociação"],
        [id |-> "P4.15", name |-> "Resolução de conflitos"], [id |-> "P4.16", name |-> "Vendas"],
        [id |-> "P4.17", name |-> "Storytelling"]
      >> ],
    [ id |-> "P5", name_en |-> "Leadership, Strategy & Culture", name_pt |-> "Liderança, Estratégia & Cultura",
      topics |-> <<
        [id |-> "P5.01", name |-> "Liderança"], [id |-> "P5.02", name |-> "Gestão de pessoas"],
        [id |-> "P5.03", name |-> "Gestão de projetos"], [id |-> "P5.04", name |-> "Scrum"],
        [id |-> "P5.05", name |-> "Trabalho em equipe"], [id |-> "P5.06", name |-> "Delegação"],
        [id |-> "P5.07", name |-> "Cultura"], [id |-> "P5.08", name |-> "Cultura de Excelência"],
        [id |-> "P5.09", name |-> "Missão Visão e Valores Organizacionais"], [id |-> "P5.10", name |-> "Estratégia"],
        [id |-> "P5.11", name |-> "Estratégia empresarial"], [id |-> "P5.12", name |-> "Governança"],
        [id |-> "P5.13", name |-> "Sistemas organizacionais"], [id |-> "P5.14", name |-> "Decisão"],
        [id |-> "P5.15", name |-> "Decision making"]
      >> ],
    [ id |-> "P6", name_en |-> "Business, Money & Wealth", name_pt |-> "Negócios, Dinheiro & Riqueza",
      topics |-> <<
        [id |-> "P6.01", name |-> "Finanças"], [id |-> "P6.02", name |-> "Dinheiro"],
        [id |-> "P6.03", name |-> "Patrimônio"], [id |-> "P6.04", name |-> "Ativos"],
        [id |-> "P6.05", name |-> "Gestão financeira"], [id |-> "P6.06", name |-> "Alocação de capital"],
        [id |-> "P6.07", name |-> "Investimentos"], [id |-> "P6.08", name |-> "Avaliação de risco"],
        [id |-> "P6.09", name |-> "Empreendedorismo"]
      >> ],
    [ id |-> "P7", name_en |-> "Values, Character & Integrity", name_pt |-> "Valores, Caráter & Integridade",
      topics |-> <<
        [id |-> "P7.01", name |-> "Ética"], [id |-> "P7.02", name |-> "Justiça"],
        [id |-> "P7.03", name |-> "Moral"], [id |-> "P7.04", name |-> "Responsabilidade"],
        [id |-> "P7.05", name |-> "Seriedade"], [id |-> "P7.06", name |-> "Compromisso"],
        [id |-> "P7.07", name |-> "Honra"], [id |-> "P7.08", name |-> "Integridade"],
        [id |-> "P7.09", name |-> "Coragem"], [id |-> "P7.10", name |-> "Coragem Moral"],
        [id |-> "P7.11", name |-> "Caráter"], [id |-> "P7.12", name |-> "Virtude"],
        [id |-> "P7.13", name |-> "Compaixão"], [id |-> "P7.14", name |-> "Humildade"],
        [id |-> "P7.15", name |-> "Liberdade"], [id |-> "P7.16", name |-> "Princípios"],
        [id |-> "P7.17", name |-> "Valores"], [id |-> "P7.18", name |-> "Serviço"]
      >> ],
    [ id |-> "P8", name_en |-> "Family & Legacy", name_pt |-> "Família & Legado",
      topics |-> <<
        [id |-> "P8.01", name |-> "Família"], [id |-> "P8.02", name |-> "Legado"],
        [id |-> "P8.03", name |-> "Nome"], [id |-> "P8.04", name |-> "Reputação"],
        [id |-> "P8.05", name |-> "Paternidade"], [id |-> "P8.06", name |-> "Presença emocional"],
        [id |-> "P8.07", name |-> "Tradições familiares"], [id |-> "P8.08", name |-> "Modelo de vida"],
        [id |-> "P8.09", name |-> "Educação moral"], [id |-> "P8.10", name |-> "Experiências"],
        [id |-> "P8.11", name |-> "Cartas e orientações"]
      >> ]
  >>

-----------------------------------------------------------------------------
(* JavaScript and SQL primitives used by the handlers *)

\* Array.prototype.find on a table with ids: the index of the first row whose
\* id is wanted, 0 when there is none
FindIndex(rows, wanted) ==
  IF \E i \in 1..Len(rows) : rows[i].id = wanted
    THEN CHOOSE i \in 1..Len(rows) :
           /\ rows[i].id = wanted
           /\ \A j \in 1..(i - 1) : rows[j].id # wanted
    ELSE 0

\* a text: the first len characters of the character stream src
EmptyText == [src |-> "", len |-> 0]

Text(src, len) == IF len = 0 THEN EmptyText ELSE [src |-> src, len |-> len]

\* String.prototype.slice(0, n)
Slice(t, n) == IF t.len <= n THEN t ELSE Text(t.src, n)

\* a in place of a || b
FirstOperand(t, u) == t

\* a || b on strings: the empty string is falsy
OrElse(t, u) == IF t.len = 0 THEN u ELSE t

\* String.prototype.toLowerCase, token by token
LowerToken(tok) ==
  CASE tok = "PDF"  -> "pdf"
    [] tok = "MD"   -> "md"
    [] tok = "Scan" -> "scan"
    [] OTHER        -> tok

ToLowerCase(name) == [i \in 1..Len(name) |-> LowerToken(name[i])]

\* path.extname: from the last dot of the name to its end; empty when the
\* name has no dot or only a leading one
LastDot(name) ==
  IF \E i \in 1..Len(name) : name[i] = "."
    THEN CHOOSE i \in 1..Len(name) :
           /\ name[i] = "."
           /\ \A j \in (i + 1)..Len(name) : name[j] # "."
    ELSE 0

ExtName(name) ==
  IF LastDot(name) <= 1 THEN << >> ELSE SubSeq(name, LastDot(name), Len(name))

\* the name read as a text (classify is given the name when no text was extracted)
NameText(name) == Text("name", Len(name))

\* JSON.stringify of an array of strings
Stringify(arr) == << "[" >> \o arr \o << "]" >>

\* the tags of a reply that has no tags field
NoTags == << NULL >>

\* result.tags || []
TagsOrEmpty(tags) == IF tags = NoTags THEN << >> ELSE tags

\* uuidv4(): the n-th value drawn; values never repeat
Uuid(n) == "u" \o ToString(n)

-----------------------------------------------------------------------------
(* Taxonomy validation of the classifier's output, part_001:455-456 *)

ResolvePillar(result) ==
  IF FindIndex(PILLARS, result.pillar_id) # 0
    THEN PILLARS[FindIndex(PILLARS, result.pillar_id)]
    ELSE PILLARS[1]

\* a validation that takes the classifier's topic as it is
ResolveTopicUnchecked(pillar, result) ==
  [id |-> result.topic_id, name |-> result.topic_name]

ResolveTopic(pillar, result) ==
  IF FindIndex(pillar.topics, result.topic_id) # 0
    THEN pillar.topics[FindIndex(pillar.topics, result.topic_id)]
    ELSE pillar.topics[1]

-----------------------------------------------------------------------------
(* Inputs *)

\* files a client may post: name, declared media type, size, bytes
Files ==
  { [ originalname |-> << "notes", ".", "md" >>,
      mimetype |-> << "text/", "markdown" >>,
      size |-> 26, bytes |-> Text("notes.md", 26) ],
    [ originalname |-> << "Scan", ".", "PDF" >>,
      mimetype |-> << "application/", "pdf" >>,
      size |-> 90000, bytes |-> Text("Scan.PDF", 90000) ],
    [ originalname |-> << "pic", ".", "png" >>,
      mimetype |-> << "image/", "png" >>,
      size |-> 512, bytes |-> Text("pic.png", 512) ],
    [ originalname |-> << "run", ".", "exe" >>,
      mimetype |-> << "application/", "octet-stream" >>,
      size |-> 64, bytes |-> Text("run.exe", 64) ] }

\* what pdf-parse may do with a buffer: throw, or return the document's text
PdfOutcomes ==
  { [ok |-> FALSE, text |-> EmptyText],
    [ok |-> TRUE,  text |-> Text("pdf-text", 20000)] }

\* replies of the reasoning service that parse as JSON
Replies ==
  { [ summary |-> "about sleep", tags |-> << "sleep", "health", "habits" >>,
      pillar_id |-> "P2", pillar_name |-> "Health, Wellbeing & Spirituality",
      topic_id |-> "P2.05", topic_name |-> "Sono",
      confidence |-> 95, rationale |-> "sleep hygiene" ],
    [ summary |-> "about reputation", tags |-> NoTags,
      pillar_id |-> "P3", pillar_name |-> "Image",
      topic_id |-> "P8.04", topic_name |-> "Reputação",
      confidence |-> 150, rationale |-> "public image" ],
    [ summary |-> "unclear", tags |-> << "misc" >>,
      pillar_id |-> NULL, pillar_name |-> NULL,
      topic_id |-> "P2.05", topic_name |-> "Sono",
      confidence |-> -20, rationale |-> "" ] }

\* a reply that is no reply: the fields read from it are not used
NoResult ==
  [ summary |-> NULL, tags |-> NoTags, pillar_id |-> NULL, pillar_name |-> NULL,
    topic_id |-> NULL, topic_name |-> NULL, confidence |-> 0, rationale |-> NULL ]

\* outcomes of openai.chat.completions.create followed by JSON.parse
\* (part_001:331-340): the call rejects, the content does not parse, or a result
ReasoningOutcomes(e) ==
  { [kind |-> "rejected", result |-> NoResult, tokens |-> 0] } \cup
  ( IF e.OPENAI_API_KEY
      THEN { [kind |-> "unparseable", result |-> NoResult, tokens |-> 0] } \cup
           { [kind |-> "json", result |-> r, tokens |-> 700] : r \in Replies }
      ELSE { } )

-----------------------------------------------------------------------------
(* Configuration and initial state *)

\* a configuration value is set when it is neither missing nor empty
IsSet(v) == v # NULL /\ v # ""

\* a key that is the JSON text null
NullText == "(null)"

\* JSON.parse of the service-account key succeeds
KeyParses(k) == k \in {"{service-account}", NullText}

\* credentials.client_email can be read (part_000:31): the parsed key is not null
HasClientEmail(k) == k # NullText

Env(key, folder, owner, openai) ==
  [ GOOGLE_SERVICE_ACCOUNT_KEY |-> key, GOOGLE_DRIVE_FOLDER_ID |-> folder,
    GOOGLE_DRIVE_OWNER_EMAIL |-> owner, OPENAI_API_KEY |-> openai ]

\* the environments the process is started in: everything configured; Drive
\* not configured; and, without a key for the reasoning service, Drive
\* configured but for the owner's e-mail, Drive without its folder id, and
\* Drive with a key that is no JSON
Envs ==
  { Env("{service-account}", "folder", "owner@example.org", TRUE),
    Env(NULL, NULL, NULL, TRUE),
    Env("{service-account}", "folder", NULL, FALSE),
    Env("{service-account}", "", NULL, FALSE),
    Env("not json", "folder", NULL, FALSE) }

\* the environment whose key is the JSON text null
EnvsAtStart == Envs \cup { Env(NullText, "folder", NULL, TRUE) }

\* init returning true as soon as the key has parsed
DriveInitOnParse(e) ==
  IF ~IsSet(e.GOOGLE_SERVICE_ACCOUNT_KEY) \/ ~IsSet(e.GOOGLE_DRIVE_FOLDER_ID)
    THEN FALSE
    ELSE KeyParses(e.GOOGLE_SERVICE_ACCOUNT_KEY)

\* drive.init(), part_000:15-36: true when the client was built and the
\* service account's address was logged; anything thrown in between is caught
DriveInit(e) ==
  IF ~IsSet(e.GOOGLE_SERVICE_ACCOUNT_KEY) \/ ~IsSet(e.GOOGLE_DRIVE_FOLDER_ID)
    THEN FALSE
    ELSE /\ KeyParses(e.GOOGLE_SERVICE_ACCOUNT_KEY)
         /\ HasClientEmail(e.GOOGLE_SERVICE_ACCOUNT_KEY)

\* no response sent yet
NoResp == [status |-> 0, error |-> NULL, item |-> NULL, total |-> 0]

Resp(status, error, item, total) ==
  [status |-> status, error |-> error, item |-> item, total |-> total]

Init ==
  /\ env \in Envs
  /\ driveEnabled = DriveInit(env)
  /\ items = << >>
  /\ classification_log = << >>
  /\ localFiles = { }
  /\ driveFiles = { }
  /\ uuidCount = 0
  /\ uploads = << >>
  /\ youtubes = << >>
  /\ playlists = << >>
  /\ patches = << >>
  /\ openaiCalls = 0
  /\ now = 0
  /\ fetches = << >>
  /\ listings = << >>

\* requests that have arrived so far
Arrived == Len(uploads) + Len(youtubes) + Len(playlists)

-----------------------------------------------------------------------------
(* classify, part_001:303-341 *)

\* the text as it is in place of text.slice(0, 8000)
PromptUncut(text, filename) == [filename |-> filename, text |-> text]

\* the prompt: the file name and the first 8000 characters of the text
Prompt(text, filename) == [filename |-> filename, text |-> Slice(text, PromptCap)]

\* a row that takes the names of pillar and topic from the reply
ClassifiedRowReplyNames(id, filename, original, mimetype, size, text, result, fileId, url) ==
  [ id |-> id, filename |-> filename, original |-> original,
    mimetype |-> mimetype, size |-> size, text |-> Slice(text, RowTextCap),
    summary |-> result.summary,
    tags |-> Stringify(TagsOrEmpty(result.tags)),
    pillar_id |-> ResolvePillar(result).id,
    pillar_name |-> result.pillar_name,
    topic_id |-> ResolveTopic(ResolvePillar(result), result).id,
    topic_name |-> result.topic_name,
    confidence |-> result.confidence, rationale |-> result.rationale,
    drive_file_id |-> fileId, drive_url |-> url, status |-> "classified",
    created_at |-> now, updated_at |-> now ]

\* the row an ingestion inserts into items once the reply is validated,
\* part_001:459-471, 510-520, 573-583
ClassifiedRow(id, filename, original, mimetype, size, text, result, fileId, url) ==
  [ id |-> id, filename |-> filename, original |-> original,
    mimetype |-> mimetype, size |-> size, text |-> Slice(text, RowTextCap),
    summary |-> result.summary,
    tags |-> Stringify(TagsOrEmpty(result.tags)),
    pillar_id |-> ResolvePillar(result).id,
    pillar_name |-> ResolvePillar(result).name_en,
    topic_id |-> ResolveTopic(ResolvePillar(result), result).id,
    topic_name |-> ResolveTopic(ResolvePillar(result), result).name,
    confidence |-> result.confidence, rationale |-> result.rationale,
    drive_file_id |-> fileId, drive_url |-> url, status |-> "classified",
    created_at |-> now, updated_at |-> now ]

\* a log entry that names itself instead of the item
LogRowUnlinked(logId, itemId, prompt, result, tokens) ==
  [ id |-> logId, item_id |-> logId, prompt |-> prompt,
    response |-> result, model |-> "gpt-4o-mini", tokens |-> tokens,
    created_at |-> now ]

\* the row an ingestion inserts into classification_log,
\* part_001:473-476, 522-525, 585-588
LogRow(logId, itemId, prompt, result, tokens) ==
  [ id |-> logId, item_id |-> itemId, prompt |-> prompt,
    response |-> result, model |-> "gpt-4o-mini", tokens |-> tokens,
    created_at |-> now ]

\* what may throw between the call of the reasoning service and the end of the
\* inserts: classify (the call rejects, or JSON.parse throws on its content), or
\* the insert into items
ThrowsAfterCall ==
  ( IF \E o \in ReasoningOutcomes(env) : o.kind # "json" THEN {"classify"} ELSE { } ) \cup
  ( IF \E o \in ReasoningOutcomes(env) : o.kind = "json" THEN {"insert"} ELSE { } )

-----------------------------------------------------------------------------
(* drive.upload, part_000:47-80 *)

\* the id Drive gives the next blob of the folder
NextBlobId == "d" \o ToString(Cardinality(driveFiles) + 1)

BlobUrl(blobId) == "https://drive.google.com/file/" \o blobId

\* the blob files.create leaves in the folder; shared says whether
\* permissions.create then gave the owner access
Blob(blobId, name, mimetype, bytes, shared) ==
  [ id |-> blobId, name |-> name, mimetype |-> mimetype, bytes |-> bytes,
    parents |-> env.GOOGLE_DRIVE_FOLDER_ID, shared |-> shared ]

\* outcomes of the sharing step: not attempted without an owner e-mail,
\* otherwise it succeeds or its failure is logged and dropped
ShareOutcomes == IF IsSet(env.GOOGLE_DRIVE_OWNER_EMAIL) THEN BOOLEAN ELSE {FALSE}

-----------------------------------------------------------------------------
(* POST /upload, part_001:84-91 and 425-486 *)

\* multer's fileFilter, part_001:87-90
Allowed ==
  { << ".", "pdf" >>, << ".", "txt" >>, << ".", "md" >>, << ".", "png" >>,
    << ".", "jpg" >>, << ".", "jpeg" >>, << ".", "webp" >> }

FileFilter(file) == ToLowerCase(ExtName(file.originalname)) \in Allowed

\* extractText, part_001:288-301; pdf is what pdf-parse does with the buffer
ExtractText(buffer, mimetype, pdf) ==
  IF mimetype = << "application/", "pdf" >>
    THEN IF pdf.ok THEN Slice(pdf.text, ExtractCap) ELSE EmptyText
    ELSE IF Head(mimetype) = "text/" \/ mimetype = << "application/", "octet-stream" >>
           THEN Slice(buffer, ExtractCap)
           ELSE EmptyText

\* the outcomes of pdf-parse that matter to a file
PdfOutcomesFor(file) ==
  IF file.mimetype = << "application/", "pdf" >>
    THEN PdfOutcomes
    ELSE { [ok |-> TRUE, text |-> EmptyText] }

\* the request's locals after lines 428-437; called says whether the request
\* has called the reasoning service, thrown what its try block threw
UploadLocals(file, pdf) ==
  [ pc |-> "start", id |-> Uuid(uuidCount + 1),
    original |-> file.originalname, mimetype |-> file.mimetype,
    size |-> file.size, buffer |-> file.bytes,
    ext |-> ToLowerCase(ExtName(file.originalname)),
    filename |-> << Uuid(uuidCount + 1) >> \o ToLowerCase(ExtName(file.originalname)),
    text |-> ExtractText(file.bytes, file.mimetype, pdf),
    drive_file_id |-> NULL, drive_url |-> NULL,
    called |-> FALSE, thrown |-> NULL, resp |-> NoResp ]

\* the request's record once it has answered without drawing an id (line 426)
UploadRefused(file) ==
  [ pc |-> "done", id |-> NULL,
    original |-> file.originalname, mimetype |-> file.mimetype,
    size |-> file.size, buffer |-> file.bytes, ext |-> << >>, filename |-> << >>,
    text |-> EmptyText, drive_file_id |-> NULL, drive_url |-> NULL,
    called |-> FALSE, thrown |-> NULL,
    resp |-> Resp(400, "No file uploaded", NULL, 0) ]

\* line 426: multer dropped the file
UploadNoFile(file) ==
  /\ Arrived < MaxReqs
  /\ ~FileFilter(file)
  /\ uploads' = Append(uploads, UploadRefused(file))
  /\ UNCHANGED << env, driveEnabled, listings, now, fetches, items, classification_log, localFiles,
                  driveFiles, uuidCount, youtubes, playlists, patches, openaiCalls >>

\* lines 428-444 with Drive enabled: the text is extracted and drive.upload is
\* awaited
UploadToDrive(file, pdf) ==
  /\ Arrived < MaxReqs
  /\ FileFilter(file)
  /\ driveEnabled
  /\ uuidCount' = uuidCount + 1
  /\ uploads' = Append(uploads, [UploadLocals(file, pdf) EXCEPT !.pc = "store"])
  /\ UNCHANGED << env, driveEnabled, listings, now, fetches, items, classification_log, localFiles,
                  driveFiles, youtubes, playlists, patches, openaiCalls >>

\* a handler that writes the bytes under the name the client gave
UploadToDiskOriginalName(file, pdf) ==
  /\ Arrived < MaxReqs
  /\ FileFilter(file)
  /\ ~driveEnabled
  /\ uuidCount' = uuidCount + 1
  /\ localFiles' = localFiles \cup
       { [name |-> file.originalname, bytes |-> file.bytes] }
  /\ openaiCalls' = openaiCalls + 1
  /\ uploads' = Append(uploads,
       [UploadLocals(file, pdf) EXCEPT !.pc = "classify", !.called = TRUE])
  /\ UNCHANGED << env, driveEnabled, listings, now, fetches, items, classification_log,
                  driveFiles, youtubes, playlists, patches >>

\* lines 428-452 with Drive disabled: the text is extracted, the bytes are
\* written under UPLOAD_DIR and the reasoning service is called
UploadToDisk(file, pdf) ==
  /\ Arrived < MaxReqs
  /\ FileFilter(file)
  /\ ~driveEnabled
  /\ uuidCount' = uuidCount + 1
  /\ localFiles' = localFiles \cup
       { [name |-> UploadLocals(file, pdf).filename, bytes |-> file.bytes] }
  /\ openaiCalls' = openaiCalls + 1
  /\ uploads' = Append(uploads,
       [UploadLocals(file, pdf) EXCEPT !.pc = "classify", !.called = TRUE])
  /\ UNCHANGED << env, driveEnabled, listings, now, fetches, items, classification_log,
                  driveFiles, youtubes, playlists, patches >>

\* writeFileSync throws (line 448): the catch of line 482 answers 500
UploadDiskFails(file, pdf) ==
  /\ Arrived < MaxReqs
  /\ FileFilter(file)
  /\ ~driveEnabled
  /\ uuidCount' = uuidCount + 1
  /\ uploads' = Append(uploads,
       [UploadLocals(file, pdf) EXCEPT !.pc = "done", !.thrown = "writeFileSync",
                                       !.resp = Resp(500, "Upload failed", NULL, 0)])
  /\ UNCHANGED << env, driveEnabled, listings, now, fetches, items, classification_log, localFiles,
                  driveFiles, youtubes, playlists, patches, openaiCalls >>

\* a drive.upload that rejects when the blob could not be shared
UploadStoredUnlessUnshared(i, shared) ==
  /\ uploads[i].pc = "store"
  /\ driveFiles' = driveFiles \cup
       { Blob(NextBlobId, uploads[i].original, uploads[i].mimetype,
              uploads[i].buffer, shared) }
  /\ openaiCalls' = openaiCalls + (IF shared THEN 1 ELSE 0)
  /\ uploads' = [uploads EXCEPT ![i] =
       IF shared
         THEN [@ EXCEPT !.pc = "classify", !.called = TRUE,
                        !.drive_file_id = NextBlobId,
                        !.drive_url = BlobUrl(NextBlobId)]
         ELSE [@ EXCEPT !.pc = "done", !.thrown = "drive.upload",
                        !.resp = Resp(500, "Upload failed", NULL, 0)]]
  /\ UNCHANGED << env, driveEnabled, listings, now, fetches, items, classification_log,
                  localFiles, uuidCount, youtubes, playlists, patches >>

\* drive.upload resolves (part_000:52-79, part_001:444-452): the blob is in the
\* folder, shared or not, and the reasoning service is called
UploadStored(i, shared) ==
  /\ uploads[i].pc = "store"
  /\ driveFiles' = driveFiles \cup
       { Blob(NextBlobId, uploads[i].original, uploads[i].mimetype,
              uploads[i].buffer, shared) }
  /\ openaiCalls' = openaiCalls + 1
  /\ uploads' = [uploads EXCEPT ![i] =
       [@ EXCEPT !.pc = "classify", !.called = TRUE,
                 !.drive_file_id = NextBlobId,
                 !.drive_url = BlobUrl(NextBlobId)]]
  /\ UNCHANGED << env, driveEnabled, listings, now, fetches, items, classification_log, localFiles,
                  uuidCount, youtubes, playlists, patches >>

\* a handler that, when drive.upload rejects, writes the bytes under UPLOAD_DIR
\* and goes on to classify
UploadStoreFallsBack(i) ==
  /\ uploads[i].pc = "store"
  /\ localFiles' = localFiles \cup
       { [name |-> uploads[i].filename, bytes |-> uploads[i].buffer] }
  /\ openaiCalls' = openaiCalls + 1
  /\ uploads' = [uploads EXCEPT ![i] =
       [@ EXCEPT !.pc = "classify", !.called = TRUE, !.thrown = "drive.upload"]]
  /\ UNCHANGED << env, driveEnabled, listings, now, fetches, items, classification_log, driveFiles,
                  uuidCount, youtubes, playlists, patches >>

\* drive.upload rejects (files.create failed): the catch of line 482 answers 500
UploadStoreFails(i) ==
  /\ uploads[i].pc = "store"
  /\ uploads' = [uploads EXCEPT ![i] =
       [@ EXCEPT !.pc = "done", !.thrown = "drive.upload",
                 !.resp = Resp(500, "Upload failed", NULL, 0)]]
  /\ UNCHANGED << env, driveEnabled, listings, now, fetches, items, classification_log, localFiles,
                  driveFiles, uuidCount, youtubes, playlists, patches, openaiCalls >>

\* a handler that answers 201 once the item is inserted, before the log entry
UploadAnswersBeforeLog(i, o) ==
  /\ uploads[i].pc = "classify"
  /\ o.kind = "json"
  /\ items' = Append(items,
       ClassifiedRow(uploads[i].id, uploads[i].filename, uploads[i].original,
                     uploads[i].mimetype, uploads[i].size, uploads[i].text,
                     o.result, uploads[i].drive_file_id, uploads[i].drive_url))
  /\ uploads' = [uploads EXCEPT ![i] =
       [@ EXCEPT !.pc = "log", !.resp = Resp(201, NULL, uploads[i].id, 0)]]
  /\ UNCHANGED << env, driveEnabled, listings, now, fetches, classification_log, localFiles,
                  driveFiles, uuidCount, youtubes, playlists, patches, openaiCalls >>

\* classify resolves (lines 452-480): the reply is validated, the item and its
\* log entry are inserted and 201 is answered
UploadClassified(i, o) ==
  /\ uploads[i].pc = "classify"
  /\ o.kind = "json"
  /\ items' = Append(items,
       ClassifiedRow(uploads[i].id, uploads[i].filename, uploads[i].original,
                     uploads[i].mimetype, uploads[i].size, uploads[i].text,
                     o.result, uploads[i].drive_file_id, uploads[i].drive_url))
  /\ classification_log' = Append(classification_log,
       LogRow(Uuid(uuidCount + 1), uploads[i].id,
              Prompt(OrElse(uploads[i].text, NameText(uploads[i].original)),
                     uploads[i].original),
              o.result, o.tokens))
  /\ uuidCount' = uuidCount + 1
  /\ uploads' = [uploads EXCEPT ![i] =
       [@ EXCEPT !.pc = "done", !.resp = Resp(201, NULL, uploads[i].id, 0)]]
  /\ UNCHANGED << env, driveEnabled, listings, now, fetches, localFiles, driveFiles,
                  youtubes, playlists, patches, openaiCalls >>

\* classify rejects (the call failed or its content did not parse), or the
\* insert into items throws: the catch of line 482 answers 500
UploadFails(i, cause) ==
  /\ uploads[i].pc = "classify"
  /\ cause \in ThrowsAfterCall
  /\ uploads' = [uploads EXCEPT ![i] =
       [@ EXCEPT !.pc = "done", !.thrown = cause,
                 !.resp = Resp(500, "Upload failed", NULL, 0)]]
  /\ UNCHANGED << env, driveEnabled, listings, now, fetches, items, classification_log, localFiles,
                  driveFiles, uuidCount, youtubes, playlists, patches, openaiCalls >>

-----------------------------------------------------------------------------
(* The video metadata source *)

\* the 11-character video ids that exist
VideoIds == { "dQw4w9WgXcQ", "abcdefghijk", "longtalk123" }

\* the snippet the source holds for a video
Snippet(videoId) ==
  CASE videoId = "dQw4w9WgXcQ" ->
         [ title |-> << "Deep", " ", "work" >>, channelTitle |-> 12,
           description |-> Text("description " \o videoId, 300) ]
    [] videoId = "longtalk123" ->
         [ title |-> << "Transcript" >>, channelTitle |-> 10,
           description |-> Text("description " \o videoId, 20000) ]
    [] OTHER ->
         [ title |-> << "Sleep" >>, channelTitle |-> 8,
           description |-> Text("description " \o videoId, 4995) ]

\* a member of a playlist page as playlistItems.list returns it; snippet and
\* resourceId say whether the member has these objects
Member(videoId) ==
  [ snippet |-> TRUE, resourceId |-> TRUE, videoId |-> videoId,
    title |-> Snippet(videoId).title, description |-> Snippet(videoId).description ]

\* a member whose snippet has no resourceId
MemberNoResourceId ==
  [ snippet |-> TRUE, resourceId |-> FALSE, videoId |-> NULL,
    title |-> << "Deleted", " ", "video" >>, description |-> EmptyText ]

\* a member that has no snippet at all
MemberNoSnippet ==
  [ snippet |-> FALSE, resourceId |-> FALSE, videoId |-> NULL,
    title |-> << >>, description |-> EmptyText ]

\* the pages of the playlists that exist, in the order of their tokens
PlaylistPages(playlistId) ==
  CASE playlistId = "PLtwice" ->
         << << Member("dQw4w9WgXcQ") >>, << Member("dQw4w9WgXcQ") >> >>
    [] playlistId = "PLmixed" ->
         << << MemberNoResourceId, Member("abcdefghijk"),
               MemberNoSnippet, Member("dQw4w9WgXcQ") >> >>
    [] OTHER -> << >>

-----------------------------------------------------------------------------
(* POST /youtube, part_001:489-535 *)

\* urls a client may post, as tokens; the empty url is a missing one
VideoUrls ==
  { << >>,
    << "https://www.youtube.com/watch?", "v=", "dQw4w9WgXcQ" >>,
    << "https://", "youtu.be/", "abcdefghijk" >>,
    << "https://example.org/?", "v=", "short" >> }

\* the url of a video whose description is longer than any cut of the server
LongVideoUrls == { << "https://", "youtu.be/", "longtalk123" >> }

\* the tokens [A-Za-z0-9_-]{11} matches
IsVideoId(tok) == tok \in VideoIds

\* url.match(/(?:v=|youtu\.be\/)([A-Za-z0-9_-]{11})/): the position of the
\* captured group of the first match, 0 when nothing matches
VideoMatch(url) ==
  IF \E i \in 1..(Len(url) - 1) : url[i] \in {"v=", "youtu.be/"} /\ IsVideoId(url[i + 1])
    THEN CHOOSE i \in 2..Len(url) :
           /\ url[i - 1] \in {"v=", "youtu.be/"} /\ IsVideoId(url[i])
           /\ \A j \in 2..(i - 1) : ~(url[j - 1] \in {"v=", "youtu.be/"} /\ IsVideoId(url[j]))
    ELSE 0

\* line 503: Title, Channel and description in one text
VideoText(videoId, snippet) ==
  Text("video " \o videoId,
       7 + Len(snippet.title) + 10 + snippet.channelTitle + 2 + snippet.description.len)

YoutubeLocals(url) ==
  [ pc |-> "start", url |-> url, videoId |-> NULL, title |-> << >>,
    text |-> EmptyText, id |-> NULL, thrown |-> NULL, resp |-> NoResp ]

\* lines 491 and 494: the url is missing or holds no video id
YoutubeBadUrl(url) ==
  /\ Arrived < MaxReqs
  /\ url = << >> \/ VideoMatch(url) = 0
  /\ youtubes' = Append(youtubes,
       [YoutubeLocals(url) EXCEPT
          !.pc = "done",
          !.resp = Resp(400, IF url = << >> THEN "Missing url" ELSE "Invalid YouTube URL",
                        NULL, 0)])
  /\ UNCHANGED << env, driveEnabled, listings, now, fetches, items, classification_log, localFiles,
                  driveFiles, uuidCount, uploads, playlists, patches, openaiCalls >>

\* lines 493-498: the video id is taken from the url and videos.list is awaited
YoutubeBegin(url) ==
  /\ Arrived < MaxReqs
  /\ url # << >> /\ VideoMatch(url) # 0
  /\ youtubes' = Append(youtubes,
       [YoutubeLocals(url) EXCEPT !.pc = "fetch", !.videoId = url[VideoMatch(url)]])
  /\ UNCHANGED << env, driveEnabled, listings, now, fetches, items, classification_log, localFiles,
                  driveFiles, uuidCount, uploads, playlists, patches, openaiCalls >>

\* videos.list resolves with the video (lines 499-505): the text is assembled
\* and the reasoning service is called
YoutubeFetched(i) ==
  /\ youtubes[i].pc = "fetch"
  /\ openaiCalls' = openaiCalls + 1
  /\ youtubes' = [youtubes EXCEPT ![i] =
       [@ EXCEPT !.pc = "classify",
                 !.title = Snippet(youtubes[i].videoId).title,
                 !.text = VideoText(youtubes[i].videoId, Snippet(youtubes[i].videoId))]]
  /\ UNCHANGED << env, driveEnabled, listings, now, fetches, items, classification_log, localFiles,
                  driveFiles, uuidCount, uploads, playlists, patches >>

\* videos.list resolves without the video (line 500)
YoutubeNotFound(i) ==
  /\ youtubes[i].pc = "fetch"
  /\ youtubes' = [youtubes EXCEPT ![i] =
       [@ EXCEPT !.pc = "done", !.resp = Resp(404, "Video not found", NULL, 0)]]
  /\ UNCHANGED << env, driveEnabled, listings, now, fetches, items, classification_log, localFiles,
                  driveFiles, uuidCount, uploads, playlists, patches, openaiCalls >>

\* videos.list rejects: the catch of line 531 answers 500
YoutubeFetchFails(i) ==
  /\ youtubes[i].pc = "fetch"
  /\ youtubes' = [youtubes EXCEPT ![i] =
       [@ EXCEPT !.pc = "done", !.thrown = "videos.list",
                 !.resp = Resp(500, "YouTube classification failed", NULL, 0)]]
  /\ UNCHANGED << env, driveEnabled, listings, now, fetches, items, classification_log, localFiles,
                  driveFiles, uuidCount, uploads, playlists, patches, openaiCalls >>

\* the name of the items row of a video, lines 516 and 579
VideoFilename(videoId) == << "yt_", videoId >>

\* classify resolves (lines 505-529)
YoutubeClassified(i, o) ==
  /\ youtubes[i].pc = "classify"
  /\ o.kind = "json"
  /\ items' = Append(items,
       ClassifiedRow(Uuid(uuidCount + 1), VideoFilename(youtubes[i].videoId),
                     youtubes[i].title, << "video/", "youtube" >>, 0,
                     youtubes[i].text, o.result, NULL, NULL))
  /\ classification_log' = Append(classification_log,
       LogRow(Uuid(uuidCount + 2), Uuid(uuidCount + 1),
              Prompt(youtubes[i].text, youtubes[i].title), o.result, o.tokens))
  /\ uuidCount' = uuidCount + 2
  /\ youtubes' = [youtubes EXCEPT ![i] =
       [@ EXCEPT !.pc = "done", !.id = Uuid(uuidCount + 1),
                 !.resp = Resp(201, NULL, Uuid(uuidCount + 1), 0)]]
  /\ UNCHANGED << env, driveEnabled, listings, now, fetches, localFiles, driveFiles,
                  uploads, playlists, patches, openaiCalls >>

\* classify rejects, or the insert into items throws after its id was drawn
\* (line 509): the catch of line 531
YoutubeFails(i, cause) ==
  /\ youtubes[i].pc = "classify"
  /\ cause \in ThrowsAfterCall
  /\ youtubes' = [youtubes EXCEPT ![i] =
       [@ EXCEPT !.pc = "done", !.thrown = cause,
                 !.resp = Resp(500, "YouTube classification failed", NULL, 0)]]
  /\ uuidCount' = IF cause = "insert" THEN uuidCount + 1 ELSE uuidCount
  /\ UNCHANGED << env, driveEnabled, listings, now, fetches, items, classification_log, localFiles,
                  driveFiles, uploads, playlists, patches, openaiCalls >>

-----------------------------------------------------------------------------
(* POST /youtube/playlist, part_001:538-601 *)

PlaylistUrls ==
  { << >>,
    << "https://www.youtube.com/playlist", "?", "list=", "PLtwice" >>,
    << "https://www.youtube.com/watch?v=x", "&", "list=", "PLmixed" >>,
    << "https://www.youtube.com/playlist", "?", "feature=", "share" >> }

\* the tokens [A-Za-z0-9_-]+ matches
IsPlaylistId(tok) == tok \in {"PLtwice", "PLmixed", "share"}

PlaylistMatchAt(url, i) ==
  /\ url[i - 2] \in {"?", "&"}
  /\ url[i - 1] = "list="
  /\ IsPlaylistId(url[i])

\* url.match(/[?&]list=([A-Za-z0-9_-]+)/): the position of the captured group
\* of the first match, 0 when nothing matches
PlaylistMatch(url) ==
  IF \E i \in 3..Len(url) : PlaylistMatchAt(url, i)
    THEN CHOOSE i \in 3..Len(url) :
           /\ PlaylistMatchAt(url, i)
           /\ \A j \in 3..(i - 1) : ~PlaylistMatchAt(url, j)
    ELSE 0

\* the page token of the first request (undefined) and of the last answer
NoToken == 0

\* the page a token names
PageOf(pageToken) == IF pageToken = NoToken THEN 1 ELSE pageToken

\* nextPageToken of the answer to a request for the page pageToken names
NextPageToken(playlistId, pageToken) ==
  IF PageOf(pageToken) < Len(PlaylistPages(playlistId))
    THEN PageOf(pageToken) + 1
    ELSE NoToken

\* line 566: Title and description in one text
MemberText(member) ==
  Text("member " \o member.videoId,
       7 + Len(member.title) + 2 + OrElse(member.description, EmptyText).len)

\* The background loop from member k on, up to its next await (lines 561-593):
\* a member without resourceId throws at line 563 and is skipped by the catch;
\* a member without snippet throws at line 563 and again in the catch, at line
\* 591, which ends the loop; any other member has classify called for it.
\* outs holds, for each member the loop is through with, the id of its item or
\* how its iteration ended.
RECURSIVE LoopFrom(_, _, _)
LoopFrom(members, k, outs) ==
  IF k > Len(members) THEN [pc |-> "finished", idx |-> k, outcomes |-> outs]
  ELSE IF ~members[k].snippet
    THEN [pc |-> "aborted", idx |-> k, outcomes |-> Append(outs, "uncaught")]
  ELSE IF ~members[k].resourceId
    THEN LoopFrom(members, k + 1, Append(outs, "caught"))
  ELSE [pc |-> "classify", idx |-> k, outcomes |-> outs]

\* a loop that goes on with the member after the next one
ResumeSkipping(p, out) == LoopFrom(p.items, p.idx + 2, Append(p.outcomes, out))

\* the loop of request p after the iteration of member idx ended with out
Resume(p, out) == LoopFrom(p.items, p.idx + 1, Append(p.outcomes, out))

\* 1 when the loop stopped at a call of the reasoning service
Called(at) == IF at.pc = "classify" THEN 1 ELSE 0

PlaylistLocals(url) ==
  [ pc |-> "start", url |-> url, playlistId |-> NULL, pageToken |-> NoToken,
    items |-> << >>, idx |-> 0, outcomes |-> << >>, thrown |-> NULL,
    resp |-> NoResp ]

\* lines 540 and 543: the url is missing or names no playlist
PlaylistBadUrl(url) ==
  /\ Arrived < MaxReqs
  /\ url = << >> \/ PlaylistMatch(url) = 0
  /\ playlists' = Append(playlists,
       [PlaylistLocals(url) EXCEPT
          !.pc = "done",
          !.resp = Resp(400, IF url = << >> THEN "Missing url" ELSE "Invalid playlist URL",
                        NULL, 0)])
  /\ UNCHANGED << env, driveEnabled, listings, now, fetches, items, classification_log, localFiles,
                  driveFiles, uuidCount, uploads, youtubes, patches, openaiCalls >>

\* lines 542-551: the playlist id is taken from the url and the first page is
\* asked for
PlaylistBegin(url) ==
  /\ Arrived < MaxReqs
  /\ url # << >> /\ PlaylistMatch(url) # 0
  /\ playlists' = Append(playlists,
       [PlaylistLocals(url) EXCEPT !.pc = "paging",
                                   !.playlistId = url[PlaylistMatch(url)]])
  /\ UNCHANGED << env, driveEnabled, listings, now, fetches, items, classification_log, localFiles,
                  driveFiles, uuidCount, uploads, youtubes, patches, openaiCalls >>

\* a fetch that keeps the members of the page that arrived and drops the
\* earlier pages
FetchedLastPageOnly(p) ==
  PlaylistPages(p.playlistId)[PageOf(p.pageToken)]

\* the members fetched once the awaited page has arrived (line 554)
Fetched(p) ==
  p.items \o PlaylistPages(p.playlistId)[PageOf(p.pageToken)]

\* a page arrives with a token for the next one (lines 551-556): the next page
\* is asked for
PlaylistPage(i) ==
  /\ playlists[i].pc = "paging"
  /\ PageOf(playlists[i].pageToken) <= Len(PlaylistPages(playlists[i].playlistId))
  /\ NextPageToken(playlists[i].playlistId, playlists[i].pageToken) # NoToken
  /\ playlists' = [playlists EXCEPT ![i] =
       [@ EXCEPT !.items = Fetched(playlists[i]),
                 !.pageToken = NextPageToken(playlists[i].playlistId,
                                             playlists[i].pageToken)]]
  /\ UNCHANGED << env, driveEnabled, listings, now, fetches, items, classification_log, localFiles,
                  driveFiles, uuidCount, uploads, youtubes, patches, openaiCalls >>

\* the last page arrives (lines 551-561): the number of members is answered and
\* the background loop runs up to its first await
PlaylistLastPage(i) ==
  /\ playlists[i].pc = "paging"
  /\ PageOf(playlists[i].pageToken) <= Len(PlaylistPages(playlists[i].playlistId))
  /\ NextPageToken(playlists[i].playlistId, playlists[i].pageToken) = NoToken
  /\ playlists' = [playlists EXCEPT ![i] =
       [@ EXCEPT !.items = Fetched(playlists[i]),
                 !.pageToken = NoToken,
                 !.resp = Resp(200, NULL, NULL, Len(Fetched(playlists[i]))),
                 !.pc = LoopFrom(Fetched(playlists[i]), 1, << >>).pc,
                 !.idx = LoopFrom(Fetched(playlists[i]), 1, << >>).idx,
                 !.outcomes = LoopFrom(Fetched(playlists[i]), 1, << >>).outcomes]]
  /\ openaiCalls' = openaiCalls + Called(LoopFrom(Fetched(playlists[i]), 1, << >>))
  /\ UNCHANGED << env, driveEnabled, listings, now, fetches, items, classification_log, localFiles,
                  driveFiles, uuidCount, uploads, youtubes, patches >>

\* a handler that, when a page fails, goes on with the pages it has
PlaylistFetchFailsKeepsPages(i) ==
  /\ playlists[i].pc = "paging"
  /\ playlists' = [playlists EXCEPT ![i] =
       [@ EXCEPT !.thrown = "playlistItems.list",
                 !.pageToken = NoToken,
                 !.resp = Resp(200, NULL, NULL, Len(playlists[i].items)),
                 !.pc = LoopFrom(playlists[i].items, 1, << >>).pc,
                 !.idx = LoopFrom(playlists[i].items, 1, << >>).idx,
                 !.outcomes = LoopFrom(playlists[i].items, 1, << >>).outcomes]]
  /\ openaiCalls' = openaiCalls + Called(LoopFrom(playlists[i].items, 1, << >>))
  /\ UNCHANGED << env, driveEnabled, listings, now, fetches, items, classification_log,
                  localFiles, driveFiles, uuidCount, uploads, youtubes, patches >>

\* playlistItems.list rejects: the catch of line 597 answers 500
PlaylistFetchFails(i) ==
  /\ playlists[i].pc = "paging"
  /\ playlists' = [playlists EXCEPT ![i] =
       [@ EXCEPT !.pc = "done", !.thrown = "playlistItems.list",
                 !.resp = Resp(500, "Playlist failed", NULL, 0)]]
  /\ UNCHANGED << env, driveEnabled, listings, now, fetches, items, classification_log, localFiles,
                  driveFiles, uuidCount, uploads, youtubes, patches, openaiCalls >>

\* INSERT OR IGNORE INTO items: the row is dropped when its primary key is
\* taken (id is the only key of the table, part_001:31-51)
InsertOrIgnore(table, row) ==
  IF \E k \in 1..Len(table) : table[k].id = row.id THEN table ELSE Append(table, row)

\* classify resolves for member idx (lines 568-588): the item and its log entry
\* are inserted and the loop goes on to its next await
PlaylistMemberClassified(i, o) ==
  /\ playlists[i].pc = "classify"
  /\ o.kind = "json"
  /\ items' = InsertOrIgnore(items,
       ClassifiedRow(Uuid(uuidCount + 1),
                     VideoFilename(playlists[i].items[playlists[i].idx].videoId),
                     playlists[i].items[playlists[i].idx].title,
                     << "video/", "youtube" >>, 0,
                     MemberText(playlists[i].items[playlists[i].idx]),
                     o.result, NULL, NULL))
  /\ classification_log' = Append(classification_log,
       LogRow(Uuid(uuidCount + 2), Uuid(uuidCount + 1),
              Prompt(MemberText(playlists[i].items[playlists[i].idx]),
                     playlists[i].items[playlists[i].idx].title),
              o.result, o.tokens))
  /\ uuidCount' = uuidCount + 2
  /\ playlists' = [playlists EXCEPT ![i] =
       [@ EXCEPT !.pc = Resume(playlists[i], Uuid(uuidCount + 1)).pc,
                 !.idx = Resume(playlists[i], Uuid(uuidCount + 1)).idx,
                 !.outcomes = Resume(playlists[i], Uuid(uuidCount + 1)).outcomes]]
  /\ openaiCalls' = openaiCalls + Called(Resume(playlists[i], Uuid(uuidCount + 1)))
  /\ UNCHANGED << env, driveEnabled, listings, now, fetches, localFiles, driveFiles,
                  uploads, youtubes, patches >>

\* classify rejects for member idx, or its insert into items throws: the catch
\* of line 590 logs the member's title and the loop goes on to its next await
PlaylistMemberFails(i, cause) ==
  /\ playlists[i].pc = "classify"
  /\ cause \in ThrowsAfterCall
  /\ uuidCount' = IF cause = "insert" THEN uuidCount + 1 ELSE uuidCount
  /\ playlists' = [playlists EXCEPT ![i] =
       [@ EXCEPT !.thrown = cause,
                 !.pc = Resume(playlists[i], "caught").pc,
                 !.idx = Resume(playlists[i], "caught").idx,
                 !.outcomes = Resume(playlists[i], "caught").outcomes]]
  /\ openaiCalls' = openaiCalls + Called(Resume(playlists[i], "caught"))
  /\ UNCHANGED << env, driveEnabled, listings, now, fetches, items, classification_log, localFiles,
                  driveFiles, uploads, youtubes, patches >>

-----------------------------------------------------------------------------
(* PATCH /items/:id/confirm and /items/:id/reclassify, part_001:604-631 *)

\* ids an operator may name: those of the rows, and one that names none
NamedIds == { items[k].id : k \in 1..Len(items) } \cup { "u0" }

\* pillar and topic ids an operator may send
SentPillarIds == { "P8", "P9" }

SentTopicIds == { "P8.04", "P3.07" }

\* UPDATE items SET ... without its WHERE clause
UpdateEveryRow(table, id, set) ==
  [k \in 1..Len(table) |->
     [c \in DOMAIN table[k] |-> IF c \in DOMAIN set THEN set[c] ELSE table[k][c]]]

\* UPDATE items SET ... WHERE id = ?: the columns of set are assigned in the
\* rows with that id
Update(table, id, set) ==
  [k \in 1..Len(table) |->
     IF table[k].id = id
       THEN [c \in DOMAIN table[k] |->
               IF c \in DOMAIN set THEN set[c] ELSE table[k][c]]
       ELSE table[k]]

\* result.changes of that update
Changes(table, id) == Cardinality({ k \in 1..Len(table) : table[k].id = id })

\* SET status = 'confirmed', updated_at = datetime('now')
SetConfirmed == [status |-> "confirmed", updated_at |-> now]

\* req.body of a PATCH: the fields the handlers read, NULL (NoTags for tags)
\* when not sent
Body(pillar_id, pillar_name, topic_id, topic_name, tags, summary) ==
  [ pillar_id |-> pillar_id, pillar_name |-> pillar_name, topic_id |-> topic_id,
    topic_name |-> topic_name, tags |-> tags, summary |-> summary ]

NoBody == Body(NULL, NULL, NULL, NULL, NoTags, NULL)

\* lines 604-610
Confirm(id) ==
  /\ Len(patches) < MaxPatches
  /\ items' = Update(items, id, SetConfirmed)
  /\ patches' = Append(patches,
       [ kind |-> "confirm", id |-> id, body |-> NoBody,
         resp |-> IF Changes(items, id) = 0
                    THEN Resp(404, "Not found", NULL, 0)
                    ELSE Resp(200, NULL, NULL, 0) ])
  /\ UNCHANGED << env, driveEnabled, listings, now, fetches, classification_log, localFiles, driveFiles,
                  uuidCount, uploads, youtubes, playlists, openaiCalls >>

\* lines 616-620: the request is refused when the pillar is unknown or the
\* topic is not one of the pillar's
ReclassifyRefusal(pillar_id, topic_id) ==
  IF FindIndex(PILLARS, pillar_id) = 0 THEN "Invalid pillar_id"
  ELSE IF FindIndex(PILLARS[FindIndex(PILLARS, pillar_id)].topics, topic_id) = 0
    THEN "Invalid topic_id"
  ELSE NULL

\* a handler that stamps the row before it validates the request
ReclassifyInvalidStamps(id, pillar_id, topic_id) ==
  /\ Len(patches) < MaxPatches
  /\ ReclassifyRefusal(pillar_id, topic_id) # NULL
  /\ items' = Update(items, id, [updated_at |-> now])
  /\ patches' = Append(patches,
       [ kind |-> "reclassify", id |-> id,
         body |-> Body(pillar_id, NULL, topic_id, NULL, NoTags, NULL),
         resp |-> Resp(400, ReclassifyRefusal(pillar_id, topic_id), NULL, 0) ])
  /\ UNCHANGED << env, driveEnabled, listings, now, fetches, classification_log, localFiles,
                  driveFiles, uuidCount, uploads, youtubes, playlists, openaiCalls >>

ReclassifyInvalid(id, pillar_id, topic_id) ==
  /\ Len(patches) < MaxPatches
  /\ ReclassifyRefusal(pillar_id, topic_id) # NULL
  /\ patches' = Append(patches,
       [ kind |-> "reclassify", id |-> id,
         body |-> Body(pillar_id, NULL, topic_id, NULL, NoTags, NULL),
         resp |-> Resp(400, ReclassifyRefusal(pillar_id, topic_id), NULL, 0) ])
  /\ UNCHANGED << env, driveEnabled, listings, now, fetches, items, classification_log, localFiles,
                  driveFiles, uuidCount, uploads, youtubes, playlists, openaiCalls >>

\* lines 622-630
Reclassify(id, pillar_id, topic_id) ==
  /\ Len(patches) < MaxPatches
  /\ ReclassifyRefusal(pillar_id, topic_id) = NULL
  /\ LET pillar == PILLARS[FindIndex(PILLARS, pillar_id)]
         topic  == pillar.topics[FindIndex(pillar.topics, topic_id)]
         set == [ pillar_id |-> pillar.id, pillar_name |-> pillar.name_en,
                  topic_id |-> topic.id, topic_name |-> topic.name,
                  status |-> "confirmed", updated_at |-> now ]
     IN  /\ items' = Update(items, id, set)
         /\ patches' = Append(patches,
              [ kind |-> "reclassify", id |-> id,
                body |-> Body(pillar_id, NULL, topic_id, NULL, NoTags, NULL),
                resp |-> IF Changes(items, id) = 0
                           THEN Resp(404, "Not found", NULL, 0)
                           ELSE Resp(200, NULL, NULL, 0) ])
  /\ UNCHANGED << env, driveEnabled, listings, now, fetches, classification_log, localFiles, driveFiles,
                  uuidCount, uploads, youtubes, playlists, openaiCalls >>

-----------------------------------------------------------------------------
(* GET /items/:id/file, part_001:399-422, and drive.download, part_000:85-91 *)

\* the row SELECT * FROM items WHERE id = ? returns (line 400); ids are the
\* primary key, so there is at most one
RowOf(id) == items[CHOOSE k \in 1..Len(items) : items[k].id = id]

FetchLocals(id) ==
  [ pc |-> "start", id |-> id, drive_file_id |-> NULL, source |-> NULL,
    thrown |-> NULL, status |-> 0, error |-> NULL, body |-> EmptyText ]

\* line 401: no row has the id
FileUnknown(id) ==
  /\ Len(fetches) < MaxFetches
  /\ \A k \in 1..Len(items) : items[k].id # id
  /\ fetches' = Append(fetches,
       [FetchLocals(id) EXCEPT !.pc = "done", !.status = 404, !.error = "Not found"])
  /\ UNCHANGED << env, driveEnabled, listings, now, items, classification_log, localFiles,
                  driveFiles, uuidCount, uploads, youtubes, playlists, patches,
                  openaiCalls >>

\* lines 403-405: the row has a drive_file_id and Drive is enabled, so
\* drive.download is awaited
FileFromDrive(id) ==
  /\ Len(fetches) < MaxFetches
  /\ \E k \in 1..Len(items) : items[k].id = id
  /\ RowOf(id).drive_file_id # NULL /\ driveEnabled
  /\ fetches' = Append(fetches,
       [FetchLocals(id) EXCEPT !.pc = "download", !.source = "drive",
                               !.drive_file_id = RowOf(id).drive_file_id])
  /\ UNCHANGED << env, driveEnabled, listings, now, items, classification_log, localFiles,
                  driveFiles, uuidCount, uploads, youtubes, playlists, patches,
                  openaiCalls >>

\* drive.download resolves with the bytes of the blob (lines 405-408)
FileDownloaded(i) ==
  /\ fetches[i].pc = "download"
  /\ \E b \in driveFiles :
       /\ b.id = fetches[i].drive_file_id
       /\ fetches' = [fetches EXCEPT ![i] =
            [@ EXCEPT !.pc = "done", !.status = 200, !.body = b.bytes]]
  /\ UNCHANGED << env, driveEnabled, listings, now, items, classification_log, localFiles,
                  driveFiles, uuidCount, uploads, youtubes, playlists, patches,
                  openaiCalls >>

\* a handler that, when drive.download rejects, goes on to the local path
FileDownloadFallsBack(i) ==
  /\ fetches[i].pc = "download"
  /\ fetches' = [fetches EXCEPT ![i] =
       [@ EXCEPT !.pc = "done", !.thrown = "drive.download", !.source = "local",
                 !.status = 404,
                 !.error = "File not found in Drive or local storage"]]
  /\ UNCHANGED << env, driveEnabled, listings, now, items, classification_log, localFiles,
                  driveFiles, uuidCount, uploads, youtubes, playlists, patches,
                  openaiCalls >>

\* drive.download rejects: the catch of line 409 answers 500 and returns
FileDownloadFails(i) ==
  /\ fetches[i].pc = "download"
  /\ fetches' = [fetches EXCEPT ![i] =
       [@ EXCEPT !.pc = "done", !.thrown = "drive.download", !.status = 500,
                 !.error = "Drive download failed"]]
  /\ UNCHANGED << env, driveEnabled, listings, now, items, classification_log, localFiles,
                  driveFiles, uuidCount, uploads, youtubes, playlists, patches,
                  openaiCalls >>

\* lines 415-421: the row has no drive_file_id, or Drive is not enabled; the
\* file named item.filename under UPLOAD_DIR is sent when it exists
FileFromDisk(id) ==
  /\ Len(fetches) < MaxFetches
  /\ \E k \in 1..Len(items) : items[k].id = id
  /\ ~(RowOf(id).drive_file_id # NULL /\ driveEnabled)
  /\ fetches' = Append(fetches,
       IF \E f \in localFiles : f.name = RowOf(id).filename
         THEN [FetchLocals(id) EXCEPT
                 !.pc = "done", !.source = "local", !.status = 200,
                 !.body = (CHOOSE f \in localFiles : f.name = RowOf(id).filename).bytes]
         ELSE [FetchLocals(id) EXCEPT
                 !.pc = "done", !.source = "local", !.status = 404,
                 !.error = "File not found in Drive or local storage"])
  /\ UNCHANGED << env, driveEnabled, listings, now, items, classification_log, localFiles,
                  driveFiles, uuidCount, uploads, youtubes, playlists, patches,
                  openaiCalls >>

\* a second passes on the clock datetime('now') reads
Tick ==
  /\ now < MaxNow
  /\ now' = now + 1
  /\ UNCHANGED << env, driveEnabled, listings, fetches, items, classification_log, localFiles,
                  driveFiles, uuidCount, uploads, youtubes, playlists, patches,
                  openaiCalls >>

-----------------------------------------------------------------------------
(* The server *)

Next ==
  \/ \E file \in Files : UploadNoFile(file)
  \/ \E file \in Files : \E pdf \in PdfOutcomesFor(file) : UploadToDrive(file, pdf)
  \/ \E file \in Files : \E pdf \in PdfOutcomesFor(file) : UploadToDisk(file, pdf)
  \/ \E file \in Files : \E pdf \in PdfOutcomesFor(file) : UploadDiskFails(file, pdf)
  \/ \E i \in 1..Len(uploads) : \E shared \in ShareOutcomes : UploadStored(i, shared)
  \/ \E i \in 1..Len(uploads) : UploadStoreFails(i)
  \/ \E i \in 1..Len(uploads) : \E o \in ReasoningOutcomes(env) : UploadClassified(i, o)
  \/ \E i \in 1..Len(uploads) : \E cause \in ThrowsAfterCall : UploadFails(i, cause)
  \/ \E url \in VideoUrls : YoutubeBadUrl(url)
  \/ \E url \in VideoUrls : YoutubeBegin(url)
  \/ \E i \in 1..Len(youtubes) : YoutubeFetched(i)
  \/ \E i \in 1..Len(youtubes) : YoutubeNotFound(i)
  \/ \E i \in 1..Len(youtubes) : YoutubeFetchFails(i)
  \/ \E i \in 1..Len(youtubes) : \E o \in ReasoningOutcomes(env) : YoutubeClassified(i, o)
  \/ \E i \in 1..Len(youtubes) : \E cause \in ThrowsAfterCall : YoutubeFails(i, cause)
  \/ \E url \in PlaylistUrls : PlaylistBadUrl(url)
  \/ \E url \in PlaylistUrls : PlaylistBegin(url)
  \/ \E i \in 1..Len(playlists) : PlaylistPage(i)
  \/ \E i \in 1..Len(playlists) : PlaylistLastPage(i)
  \/ \E i \in 1..Len(playlists) : PlaylistFetchFails(i)
  \/ \E i \in 1..Len(playlists) : \E o \in ReasoningOutcomes(env) :
       PlaylistMemberClassified(i, o)
  \/ \E i \in 1..Len(playlists) : \E cause \in ThrowsAfterCall :
       PlaylistMemberFails(i, cause)
  \/ \E id \in NamedIds : Confirm(id)
  \/ \E id \in NamedIds : \E p \in SentPillarIds : \E t \in SentTopicIds :
       ReclassifyInvalid(id, p, t)
  \/ \E id \in NamedIds : \E p \in SentPillarIds : \E t \in SentTopicIds :
       Reclassify(id, p, t)

Spec == Init /\ [][Next]_vars


\* The server with its clock running and its files asked for, taking
\* MaxServed uploads or videos.
NextOperator ==
  \/ Tick
  \/ /\ Arrived < MaxServed
     /\ \E file \in Files : \E pdf \in PdfOutcomesFor(file) : UploadToDrive(file, pdf)
  \/ /\ Arrived < MaxServed
     /\ \E file \in Files : \E pdf \in PdfOutcomesFor(file) : UploadToDisk(file, pdf)
  \/ \E i \in 1..Len(uploads) : \E shared \in ShareOutcomes : UploadStored(i, shared)
  \/ \E i \in 1..Len(uploads) : UploadStoreFails(i)
  \/ \E i \in 1..Len(uploads) : \E o \in ReasoningOutcomes(env) : UploadClassified(i, o)
  \/ \E i \in 1..Len(uploads) : \E cause \in ThrowsAfterCall : UploadFails(i, cause)
  \/ /\ Arrived < MaxServed
     /\ \E url \in VideoUrls : YoutubeBegin(url)
  \/ \E i \in 1..Len(youtubes) : YoutubeFetched(i)
  \/ \E i \in 1..Len(youtubes) : \E o \in ReasoningOutcomes(env) : YoutubeClassified(i, o)
  \/ \E i \in 1..Len(youtubes) : \E cause \in ThrowsAfterCall : YoutubeFails(i, cause)
  \/ \E id \in NamedIds : Confirm(id)
  \/ \E id \in NamedIds : \E p \in SentPillarIds : \E t \in SentTopicIds :
       ReclassifyInvalid(id, p, t)
  \/ \E id \in NamedIds : \E p \in SentPillarIds : \E t \in SentTopicIds :
       Reclassify(id, p, t)
  \/ \E id \in NamedIds : FileUnknown(id)
  \/ \E id \in NamedIds : FileFromDrive(id)
  \/ \E id \in NamedIds : FileFromDisk(id)
  \/ \E i \in 1..Len(fetches) : FileDownloaded(i)
  \/ \E i \in 1..Len(fetches) : FileDownloadFails(i)

SpecOperator == Init /\ [][NextOperator]_vars

-----------------------------------------------------------------------------
(* Server v2.2, src/backend/server.js:358-807: POST /upload and                *)
(* PATCH /items/:id/confirm.  It has no Drive; multer writes the file under    *)
(* UPLOAD_DIR before the handler runs.                                         *)

\* extractText of v2.2 (server.js:557-572): the whole file for .txt and .md,
\* the document's text or a placeholder for .pdf, a placeholder for the rest
V2ExtractText(file, pdf) ==
  IF ToLowerCase(ExtName(file.originalname)) \in { << ".", "txt" >>, << ".", "md" >> }
    THEN file.bytes
  ELSE IF ToLowerCase(ExtName(file.originalname)) = << ".", "pdf" >>
    THEN IF pdf.ok
           THEN OrElse(pdf.text, Text("[PDF sem texto extraivel]", 25))
           ELSE Text("[Erro ao ler PDF]", 30)
  ELSE Text("[Arquivo - extracao pendente]", 30 + Len(file.originalname))

\* the request's locals (server.js:665-667); the file name is multer's, with a
\* uuid of its own (line 468)
V2UploadLocals(file, pdf) ==
  [ pc |-> "start", id |-> Uuid(uuidCount + 2),
    original |-> file.originalname, mimetype |-> file.mimetype,
    size |-> file.size, buffer |-> file.bytes,
    filename |-> << Uuid(uuidCount + 1) >> \o ExtName(file.originalname),
    text |-> V2ExtractText(file, pdf),
    called |-> FALSE, thrown |-> NULL, resp |-> NoResp ]

\* the row of server.js:669-673: only these columns are given, status is
\* 'classifying', the timestamps take their defaults
V2ClassifyingRow(u) ==
  [ id |-> u.id, filename |-> u.filename, original |-> u.original,
    mimetype |-> u.mimetype, size |-> u.size, text |-> u.text,
    summary |-> NULL, tags |-> NoTags,
    pillar_id |-> NULL, pillar_name |-> NULL, topic_id |-> NULL,
    topic_name |-> NULL, confidence |-> NULL, rationale |-> NULL,
    status |-> "classifying", created_at |-> now, updated_at |-> now ]

\* the user prompt of classifyWithAI (server.js:531)
V2Prompt(text, filename) == [filename |-> filename, text |-> Slice(text, V2PromptCap)]

\* server.js:662-679 without a key: the row is inserted as 'classifying', set
\* to 'needs_api_key', and 202 is answered
V2UploadNoKey(file, pdf) ==
  /\ Len(uploads) < MaxServed
  /\ FileFilter(file)
  /\ ~env.OPENAI_API_KEY
  /\ uuidCount' = uuidCount + 2
  /\ localFiles' = localFiles \cup
       { [name |-> V2UploadLocals(file, pdf).filename, bytes |-> file.bytes] }
  /\ items' = Append(items,
       [V2ClassifyingRow(V2UploadLocals(file, pdf)) EXCEPT !.status = "needs_api_key"])
  /\ uploads' = Append(uploads,
       [V2UploadLocals(file, pdf) EXCEPT
          !.pc = "done", !.resp = Resp(202, NULL, Uuid(uuidCount + 2), 0)])
  /\ UNCHANGED << env, driveEnabled, listings, now, fetches, classification_log, driveFiles,
                  youtubes, playlists, patches, openaiCalls >>

\* server.js:662-682 with a key: the row is inserted as 'classifying' and
\* classifyWithAI is awaited
V2UploadBegin(file, pdf) ==
  /\ Len(uploads) < MaxServed
  /\ FileFilter(file)
  /\ env.OPENAI_API_KEY
  /\ uuidCount' = uuidCount + 2
  /\ localFiles' = localFiles \cup
       { [name |-> V2UploadLocals(file, pdf).filename, bytes |-> file.bytes] }
  /\ items' = Append(items, V2ClassifyingRow(V2UploadLocals(file, pdf)))
  /\ openaiCalls' = openaiCalls + 1
  /\ uploads' = Append(uploads,
       [V2UploadLocals(file, pdf) EXCEPT !.pc = "classify", !.called = TRUE])
  /\ UNCHANGED << env, driveEnabled, listings, now, fetches, classification_log, driveFiles,
                  youtubes, playlists, patches >>

\* classifyWithAI resolves (server.js:682-696): the row takes the reply's
\* fields as they are and status 'classified', the log gets its entry
V2UploadClassified(i, o) ==
  /\ uploads[i].pc = "classify"
  /\ o.kind = "json"
  /\ items' = Update(items, uploads[i].id,
       [ summary |-> o.result.summary,
         tags |-> IF o.result.tags = NoTags THEN NoTags ELSE Stringify(o.result.tags),
         pillar_id |-> o.result.pillar_id, pillar_name |-> o.result.pillar_name,
         topic_id |-> o.result.topic_id, topic_name |-> o.result.topic_name,
         confidence |-> o.result.confidence, rationale |-> o.result.rationale,
         status |-> "classified", updated_at |-> now ])
  /\ classification_log' = Append(classification_log,
       LogRow(Uuid(uuidCount + 1), uploads[i].id,
              V2Prompt(uploads[i].text, uploads[i].original), o.result, o.tokens))
  /\ uuidCount' = uuidCount + 1
  /\ uploads' = [uploads EXCEPT ![i] =
       [@ EXCEPT !.pc = "done", !.resp = Resp(200, NULL, uploads[i].id, 0)]]
  /\ UNCHANGED << env, driveEnabled, listings, now, fetches, localFiles, driveFiles,
                  youtubes, playlists, patches, openaiCalls >>

\* classifyWithAI rejects or its content does not parse (server.js:697-701):
\* the row is set to 'error' with the message as rationale
V2UploadFails(i) ==
  /\ uploads[i].pc = "classify"
  /\ items' = Update(items, uploads[i].id,
       [ status |-> "error", rationale |-> "err.message" ])
  /\ uploads' = [uploads EXCEPT ![i] =
       [@ EXCEPT !.pc = "done", !.thrown = "classify",
                 !.resp = Resp(500, "AI classification failed.", uploads[i].id, 0)]]
  /\ UNCHANGED << env, driveEnabled, listings, now, fetches, classification_log, localFiles,
                  driveFiles, uuidCount, youtubes, playlists, patches, openaiCalls >>

\* bodies an operator may send with a confirm
V2Bodies ==
  { NoBody,
    Body(NULL, NULL, NULL, NULL, NoTags, "x"),
    Body("P4", "Relationships, Communication & Sales", "T_sales", "Sales",
         << "sales" >>, NULL) }

\* COALESCE(?, column) for the parameter value || null: the column keeps its
\* value when the parameter is null
Coalesce(sent, column) == IF sent \in {NULL, ""} THEN column ELSE sent

\* the same for tags ? JSON.stringify(tags) : null
CoalesceTags(sent, column) ==
  IF sent = NoTags THEN column ELSE Stringify(sent)

\* an UPDATE that assigns what was sent, null when nothing was
V2SetOverwrites(row, body) ==
  [ pillar_id |-> body.pillar_id, pillar_name |-> body.pillar_name,
    topic_id |-> body.topic_id, topic_name |-> body.topic_name,
    tags |-> body.tags, summary |-> body.summary,
    status |-> "confirmed", updated_at |-> now ]

\* the assignments of the UPDATE of server.js:759-768 to a row
V2SetConfirmed(row, body) ==
  [ pillar_id |-> Coalesce(body.pillar_id, row.pillar_id),
    pillar_name |-> Coalesce(body.pillar_name, row.pillar_name),
    topic_id |-> Coalesce(body.topic_id, row.topic_id),
    topic_name |-> Coalesce(body.topic_name, row.topic_name),
    tags |-> CoalesceTags(body.tags, row.tags),
    summary |-> Coalesce(body.summary, row.summary),
    status |-> "confirmed", updated_at |-> now ]

\* PATCH /items/:id/confirm of v2.2 (server.js:753-771)
V2Confirm(id, body) ==
  /\ Len(patches) < MaxPatches
  /\ items' = IF \E k \in 1..Len(items) : items[k].id = id
                THEN Update(items, id, V2SetConfirmed(RowOf(id), body))
                ELSE items
  /\ patches' = Append(patches,
       [ kind |-> "confirm", id |-> id, body |-> body,
         resp |-> IF \E k \in 1..Len(items) : items[k].id = id
                    THEN Resp(200, NULL, id, 0)
                    ELSE Resp(404, "Item not found.", NULL, 0) ])
  /\ UNCHANGED << env, driveEnabled, listings, now, fetches, classification_log, localFiles,
                  driveFiles, uuidCount, uploads, youtubes, playlists, openaiCalls >>

\* v2.2 has no Drive
V2Init ==
  /\ env \in Envs
  /\ driveEnabled = FALSE
  /\ items = << >>
  /\ classification_log = << >>
  /\ localFiles = { }
  /\ driveFiles = { }
  /\ uuidCount = 0
  /\ uploads = << >>
  /\ youtubes = << >>
  /\ playlists = << >>
  /\ patches = << >>
  /\ openaiCalls = 0
  /\ now = 0
  /\ fetches = << >>
  /\ listings = << >>

V2Next ==
  \/ Tick
  \/ \E file \in Files : \E pdf \in PdfOutcomesFor(file) : V2UploadNoKey(file, pdf)
  \/ \E file \in Files : \E pdf \in PdfOutcomesFor(file) : V2UploadBegin(file, pdf)
  \/ \E i \in 1..Len(uploads) : \E o \in ReasoningOutcomes(env) : V2UploadClassified(i, o)
  \/ \E i \in 1..Len(uploads) : V2UploadFails(i)
  \/ \E id \in NamedIds : \E body \in V2Bodies : V2Confirm(id, body)

SpecV2 == V2Init /\ [][V2Next]_vars

-----------------------------------------------------------------------------
(* The playlist handler and the operator's requests, with the reasoning       *)
(* service answering every call.                                              *)

\* the reasoning service answers the call awaited by playlist request i: the
\* call resolves or rejects
ReasoningReturns(i) ==
  /\ i <= Len(playlists)
  /\ \/ \E o \in ReasoningOutcomes(env) : PlaylistMemberClassified(i, o)
     \/ \E cause \in ThrowsAfterCall : PlaylistMemberFails(i, cause)

NextBatch ==
  \/ \E url \in PlaylistUrls : PlaylistBadUrl(url)
  \/ \E url \in PlaylistUrls : PlaylistBegin(url)
  \/ \E i \in 1..Len(playlists) : PlaylistPage(i)
  \/ \E i \in 1..Len(playlists) : PlaylistLastPage(i)
  \/ \E i \in 1..Len(playlists) : PlaylistFetchFails(i)
  \/ \E i \in 1..Len(playlists) : ReasoningReturns(i)
  \/ \E id \in NamedIds : Confirm(id)
  \/ \E id \in NamedIds : \E p \in SentPillarIds : \E t \in SentTopicIds :
       ReclassifyInvalid(id, p, t)
  \/ \E id \in NamedIds : \E p \in SentPillarIds : \E t \in SentTopicIds :
       Reclassify(id, p, t)

SpecBatch ==
  /\ Init
  /\ [][NextBatch]_vars
  /\ \A i \in 1..MaxReqs : WF_vars(ReasoningReturns(i))

-----------------------------------------------------------------------------
(* The three ingestion handlers taking MaxServed requests, a video with a     *)
(* long description among them.                                               *)

NextTexts ==
  \/ /\ Arrived < MaxServed
     /\ \E file \in Files : \E pdf \in PdfOutcomesFor(file) : UploadToDrive(file, pdf)
  \/ /\ Arrived < MaxServed
     /\ \E file \in Files : \E pdf \in PdfOutcomesFor(file) : UploadToDisk(file, pdf)
  \/ \E i \in 1..Len(uploads) : \E shared \in ShareOutcomes : UploadStored(i, shared)
  \/ \E i \in 1..Len(uploads) : UploadStoreFails(i)
  \/ \E i \in 1..Len(uploads) : \E o \in ReasoningOutcomes(env) : UploadClassified(i, o)
  \/ \E i \in 1..Len(uploads) : \E cause \in ThrowsAfterCall : UploadFails(i, cause)
  \/ /\ Arrived < MaxServed
     /\ \E url \in VideoUrls \cup LongVideoUrls : YoutubeBegin(url)
  \/ \E i \in 1..Len(youtubes) : YoutubeFetched(i)
  \/ \E i \in 1..Len(youtubes) : \E o \in ReasoningOutcomes(env) : YoutubeClassified(i, o)
  \/ \E i \in 1..Len(youtubes) : \E cause \in ThrowsAfterCall : YoutubeFails(i, cause)
  \/ /\ Arrived < MaxServed
     /\ \E url \in PlaylistUrls : PlaylistBegin(url)
  \/ \E i \in 1..Len(playlists) : PlaylistPage(i)
  \/ \E i \in 1..Len(playlists) : PlaylistLastPage(i)
  \/ \E i \in 1..Len(playlists) : \E o \in ReasoningOutcomes(env) :
       PlaylistMemberClassified(i, o)
  \/ \E i \in 1..Len(playlists) : \E cause \in ThrowsAfterCall :
       PlaylistMemberFails(i, cause)

SpecTexts == Init /\ [][NextTexts]_vars

-----------------------------------------------------------------------------
(* GET /vault, part_001:371-390 *)

\* the characters of the strings the searched columns hold
Spell(s) ==
  CASE s = "about sleep" -> << "a", "b", "o", "u", "t", " ", "s", "l", "e", "e", "p" >>
    [] s = "about reputation" ->
         << "a", "b", "o", "u", "t", " ", "r", "e", "p", "u", "t", "a", "t", "i", "o", "n" >>
    [] s = "unclear" -> << "u", "n", "c", "l", "e", "a", "r" >>
    [] s = "sleep"   -> << "s", "l", "e", "e", "p" >>
    [] s = "health"  -> << "h", "e", "a", "l", "t", "h" >>
    [] s = "habits"  -> << "h", "a", "b", "i", "t", "s" >>
    [] s = "misc"    -> << "m", "i", "s", "c" >>
    [] s = "Deep"    -> << "D", "e", "e", "p" >>
    [] s = "work"    -> << "w", "o", "r", "k" >>
    [] s = "Sleep"   -> << "S", "l", "e", "e", "p" >>
    [] OTHER         -> << s >>

\* the characters of a string held as tokens
RECURSIVE SpellAll(_)
SpellAll(toks) ==
  IF toks = << >> THEN << >> ELSE Spell(Head(toks)) \o SpellAll(Tail(toks))

\* the characters of the elements of a JSON array of strings, quoted and
\* separated by commas
RECURSIVE SpellElements(_)
SpellElements(arr) ==
  IF arr = << >>
    THEN << >>
    ELSE << "\"" >> \o Spell(Head(arr)) \o << "\"" >>
         \o (IF Tail(arr) = << >> THEN << >> ELSE << "," >>)
         \o SpellElements(Tail(arr))

\* the characters of column tags, which holds JSON.stringify of the tags
SpellTags(column) ==
  << "[" >> \o SpellElements(SubSeq(column, 2, Len(column) - 1)) \o << "]" >>

UpperCase ==
  << "A", "B", "C", "D", "E", "F", "G", "H", "I", "J", "K", "L", "M",
     "N", "O", "P", "Q", "R", "S", "T", "U", "V", "W", "X", "Y", "Z" >>

LowerCase ==
  << "a", "b", "c", "d", "e", "f", "g", "h", "i", "j", "k", "l", "m",
     "n", "o", "p", "q", "r", "s", "t", "u", "v", "w", "x", "y", "z" >>

\* the case folding of SQLite's LIKE: the 26 letters of ASCII only
AsciiLower(c) ==
  IF \E i \in 1..26 : UpperCase[i] = c
    THEN LowerCase[CHOOSE i \in 1..26 : UpperCase[i] = c]
    ELSE c

\* str LIKE pat in SQLite: % stands for any run of characters, _ for any one
\* character, any other character for itself in either case
RECURSIVE Like(_, _)
Like(pat, str) ==
  IF pat = << >>
    THEN str = << >>
    ELSE IF Head(pat) = "%"
           THEN Like(Tail(pat), str) \/ (str # << >> /\ Like(pat, Tail(str)))
           ELSE /\ str # << >>
                /\ Head(pat) = "_" \/ AsciiLower(Head(pat)) = AsciiLower(Head(str))
                /\ Like(Tail(pat), Tail(str))

\* the query of a request: pillar and status are NULL, and search is empty,
\* when the parameter is missing or empty
Query(pillar, status, search) ==
  [pillar |-> pillar, status |-> status, search |-> search]

Queries ==
  { Query(p, st, q) :
      p \in {NULL, "P2"}, st \in {NULL, "confirmed"},
      q \in { << >>, << "S", "L", "E", "E", "P" >>, << "t", "_", "s" >> } }

\* lines 378-380: `%${search}%`
Pattern(search) == << "%" >> \o search \o << "%" >>

\* the WHERE clause of lines 373-382; a NULL column is LIKE nothing
Where(row, q) ==
  /\ q.pillar = NULL \/ row.pillar_id = q.pillar
  /\ q.status = NULL \/ row.status = q.status
  /\ \/ q.search = << >>
     \/ row.summary # NULL /\ Like(Pattern(q.search), Spell(row.summary))
     \/ Like(Pattern(q.search), SpellTags(row.tags))
     \/ Like(Pattern(q.search), SpellAll(row.original))

\* the positions in items of the rows the query selects
Selected(q) == { k \in 1..Len(items) : Where(items[k], q) }

\* ORDER BY created_at DESC: the orders the rows may come in; rows of the same
\* second come in either order
Orderings(q) ==
  { o \in [1..Cardinality(Selected(q)) -> Selected(q)] :
      /\ \A a, b \in 1..Cardinality(Selected(q)) : a # b => o[a] # o[b]
      /\ \A a, b \in 1..Cardinality(Selected(q)) :
           a < b => items[o[a]].created_at >= items[o[b]].created_at }

\* line 386: tags is parsed when the column holds something
ParseTags(column) ==
  IF column = << >> THEN << >> ELSE SubSeq(column, 2, Len(column) - 1)

\* GET /vault
Vault(q, o) ==
  /\ Len(listings) < MaxListings
  /\ o \in Orderings(q)
  /\ listings' = Append(listings,
       [ query |-> q,
         items |-> [k \in 1..Len(o) |-> [items[o[k]] EXCEPT !.tags = ParseTags(@)]] ])
  /\ UNCHANGED << env, driveEnabled, now, fetches, items, classification_log, localFiles,
                  driveFiles, uuidCount, uploads, youtubes, playlists, patches,
                  openaiCalls >>

\* The server classifying videos, confirming and listing, its clock running.
NextVault ==
  \/ Tick
  \/ \E url \in VideoUrls : YoutubeBegin(url)
  \/ \E i \in 1..Len(youtubes) : YoutubeFetched(i)
  \/ \E i \in 1..Len(youtubes) : \E o \in ReasoningOutcomes(env) : YoutubeClassified(i, o)
  \/ \E id \in NamedIds : Confirm(id)
  \/ /\ Len(listings) < MaxListings
     /\ \E q \in Queries : \E o \in Orderings(q) : Vault(q, o)

SpecVault == Init /\ [][NextVault]_vars

-----------------------------------------------------------------------------
(* The ingestion handlers in a process started in any of the environments,   *)
(* a key that is the JSON text null among them.                               *)

InitAtStart ==
  /\ env \in EnvsAtStart
  /\ driveEnabled = DriveInit(env)
  /\ items = << >>
  /\ classification_log = << >>
  /\ localFiles = { }
  /\ driveFiles = { }
  /\ uuidCount = 0
  /\ uploads = << >>
  /\ youtubes = << >>
  /\ playlists = << >>
  /\ patches = << >>
  /\ openaiCalls = 0
  /\ now = 0
  /\ fetches = << >>
  /\ listings = << >>

SpecAtStart == InitAtStart /\ [][NextTexts]_vars

-----------------------------------------------------------------------------
(* Properties *)

\* the rows of items with a given id
RowsOf(id) == { k \in 1..Len(items) : items[k].id = id }

\* the entries of classification_log for the item with a given id
LogOf(id) == { k \in 1..Len(classification_log) : classification_log[k].item_id = id }

\* the pair names a pillar of the taxonomy and a topic of that pillar
InTaxonomy(pillar_id, topic_id) ==
  \E a \in 1..Len(PILLARS) :
    /\ PILLARS[a].id = pillar_id
    /\ \E b \in 1..Len(PILLARS[a].topics) : PILLARS[a].topics[b].id = topic_id

\* C1: an item still as its ingestion classified it holds the classifier's
\* pillar and topic when they are a pair of the taxonomy, and otherwise the
\* first pillar and the first pillar's first topic.
C1_FallbackIsFirstPillar ==
  \A k \in 1..Len(items) : \A l \in LogOf(items[k].id) :
    items[k].status = "classified" =>
      IF InTaxonomy(classification_log[l].response.pillar_id,
                    classification_log[l].response.topic_id)
        THEN /\ items[k].pillar_id = classification_log[l].response.pillar_id
             /\ items[k].topic_id = classification_log[l].response.topic_id
        ELSE /\ items[k].pillar_id = PILLARS[1].id
             /\ items[k].topic_id = PILLARS[1].topics[1].id

\* C2: every row of items whose pillar_id is not null names a pillar of the
\* taxonomy and a topic of that pillar.
C2_RowsResolveInTaxonomy ==
  \A k \in 1..Len(items) :
    items[k].pillar_id # NULL => InTaxonomy(items[k].pillar_id, items[k].topic_id)

\* C2 witness: a row was persisted for a reply whose pair is not in the taxonomy,
\* and a row was reclassified by the operator.
C2_Witness ==
  /\ \E k \in 1..Len(items) : \E l \in LogOf(items[k].id) :
       /\ items[k].pillar_id # NULL
       /\ ~InTaxonomy(classification_log[l].response.pillar_id,
                      classification_log[l].response.topic_id)
  /\ \E j \in 1..Len(patches) :
       patches[j].kind = "reclassify" /\ patches[j].resp.status = 200

\* C3: the confidence of every row of items lies in [0,1] (in hundredths:
\* between 0 and 100).
C3_ConfidenceInUnitInterval ==
  \A k \in 1..Len(items) : items[k].confidence >= 0 /\ items[k].confidence <= 100

\* C4: an upload whose classification failed (the call threw or its content did
\* not parse) has exactly one classification_log entry and an items row with
\* status error and a rationale that is not empty.
C4_FailureLeavesErrorRowAndLog ==
  \A i \in 1..Len(uploads) :
    uploads[i].thrown = "classify" =>
      /\ Cardinality(LogOf(uploads[i].id)) = 1
      /\ \E k \in RowsOf(uploads[i].id) :
           /\ items[k].status = "error"
           /\ items[k].rationale \notin {NULL, ""}

\* C5: when only playlists were submitted, no two rows of items hold the same
\* video name yt_<videoId>.
C5_OneRowPerVideo ==
  Len(youtubes) = 0 =>
    \A k \in 1..Len(items) : \A l \in 1..Len(items) :
      (Head(items[k].filename) = "yt_" /\ items[k].filename = items[l].filename)
        => k = l

\* C6: once the background loop of a playlist is over, it is through with every
\* fetched member, and every member it persisted an item for still has that row.
C6_LoopGoesThroughEveryMember ==
  \A i \in 1..Len(playlists) :
    playlists[i].pc \in {"finished", "aborted"} =>
      /\ Len(playlists[i].outcomes) = Len(playlists[i].items)
      /\ \A k \in 1..Len(playlists[i].outcomes) :
           playlists[i].outcomes[k] \notin {"caught", "uncaught"}
             => RowsOf(playlists[i].outcomes[k]) # { }

\* the number of members on the pages of a playlist
RECURSIVE MembersOn(_)
MembersOn(pages) ==
  IF pages = << >> THEN 0 ELSE Len(Head(pages)) + MembersOn(Tail(pages))

\* C7: the count a playlist request answers is the number of members on all
\* pages of the playlist, it is answered once no token is left, and it is
\* already answered when the first member's classification is called, and
\* stays as answered.
C7_CountIsAllPages ==
  \A i \in 1..Len(playlists) :
    /\ playlists[i].pc \in {"classify", "finished", "aborted"}
         => playlists[i].resp.status = 200
    /\ playlists[i].resp.status = 200
         => /\ playlists[i].resp.total
                 = MembersOn(PlaylistPages(playlists[i].playlistId))
            /\ playlists[i].pageToken = NoToken
    /\ playlists[i].resp.status # 200 => playlists[i].outcomes = << >>

\* C7 witness: a playlist of two pages has its count answered while the
\* classification of its first member is still awaited.
C7_Witness ==
  \E i \in 1..Len(playlists) :
    /\ Len(PlaylistPages(playlists[i].playlistId)) = 2
    /\ playlists[i].resp.status = 200
    /\ playlists[i].resp.total = 2
    /\ playlists[i].pc = "classify"
    /\ playlists[i].outcomes = << >>

\* C8: without a key for the reasoning service, an upload that stored its file
\* ends with an items row of status needs_api_key, a null pillar_id and the
\* file's contents as text, without having called the reasoning service and
\* without a classification_log entry.
C8_NoKeyParksTheItem ==
  ~env.OPENAI_API_KEY =>
    \A i \in 1..Len(uploads) :
      ( /\ uploads[i].pc = "done"
        /\ uploads[i].id # NULL
        /\ uploads[i].thrown \notin {"writeFileSync", "drive.upload"} )
      => /\ ~uploads[i].called
         /\ LogOf(uploads[i].id) = { }
         /\ \E k \in RowsOf(uploads[i].id) :
              /\ items[k].status = "needs_api_key"
              /\ items[k].pillar_id = NULL
              /\ items[k].text = uploads[i].buffer

\* C9: an upload whose drive.upload failed has answered a failure, has no
\* classified row, no file under UPLOAD_DIR, and has not called the reasoning
\* service.
C9_RemoteFailureFailsTheUpload ==
  \A i \in 1..Len(uploads) :
    uploads[i].thrown = "drive.upload" =>
      /\ driveEnabled
      /\ uploads[i].resp.status = 500
      /\ \A k \in RowsOf(uploads[i].id) : items[k].status # "classified"
      /\ \A f \in localFiles : f.name # uploads[i].filename
      /\ ~uploads[i].called

\* C9 witness: with Drive enabled an upload has ended because drive.upload
\* failed.
C9_Witness ==
  \E i \in 1..Len(uploads) :
    /\ driveEnabled
    /\ uploads[i].thrown = "drive.upload"
    /\ uploads[i].pc = "done"

\* C10: the backend chosen at start never changes; with Drive enabled an upload
\* that answered 201 has a row with a drive_file_id naming a blob of the folder
\* that holds the file's bytes, and no file under UPLOAD_DIR; with Drive
\* disabled it has the file <id><extension> with the file's bytes under
\* UPLOAD_DIR, null drive_file_id and drive_url, and no blob.
C10_OneBackendForEveryUpload ==
  /\ [][driveEnabled' = driveEnabled]_vars
  /\ [](\A i \in 1..Len(uploads) :
          uploads[i].resp.status = 201 =>
            \E k \in RowsOf(uploads[i].id) :
              IF driveEnabled
                THEN /\ items[k].drive_file_id # NULL
                     /\ \E b \in driveFiles :
                          /\ b.id = items[k].drive_file_id
                          /\ b.bytes = uploads[i].buffer
                     /\ \A f \in localFiles : f.name # items[k].filename
                ELSE /\ items[k].filename =
                          << items[k].id >> \o ToLowerCase(ExtName(items[k].original))
                     /\ [name |-> items[k].filename, bytes |-> uploads[i].buffer]
                          \in localFiles
                     /\ Cardinality({ f \in localFiles : f.name = items[k].filename }) = 1
                     /\ items[k].drive_file_id = NULL
                     /\ items[k].drive_url = NULL
                     /\ driveFiles = { })

\* C10 witness: with Drive disabled, an upload of a file whose extension is in
\* capitals has answered 201.
C10_Witness ==
  \E i \in 1..Len(uploads) :
    /\ ~driveEnabled
    /\ uploads[i].resp.status = 201
    /\ uploads[i].original = << "Scan", ".", "PDF" >>

\* C11: a finished request for an item's file answered 404 Not found when no
\* row has the id; when the row has a drive_file_id and Drive is enabled it
\* went to Drive, and answered the blob's bytes or, drive.download failing, 500
\* without reading the local path; otherwise it went to the local path and
\* answered the file's bytes, or 404 when there is no such file.
C11_FileComesFromItsBackend ==
  \A i \in 1..Len(fetches) :
    fetches[i].pc = "done" =>
      IF RowsOf(fetches[i].id) = { }
        THEN fetches[i].status = 404 /\ fetches[i].error = "Not found"
      ELSE IF RowOf(fetches[i].id).drive_file_id # NULL /\ driveEnabled
        THEN /\ fetches[i].source = "drive"
             /\ IF fetches[i].thrown = "drive.download"
                  THEN /\ fetches[i].status = 500
                       /\ fetches[i].error = "Drive download failed"
                  ELSE /\ fetches[i].status = 200
                       /\ \E b \in driveFiles :
                            /\ b.id = RowOf(fetches[i].id).drive_file_id
                            /\ b.bytes = fetches[i].body
        ELSE /\ fetches[i].source = "local"
             /\ fetches[i].thrown = NULL
             /\ IF \E f \in localFiles : f.name = RowOf(fetches[i].id).filename
                  THEN /\ fetches[i].status = 200
                       /\ [name |-> RowOf(fetches[i].id).filename,
                           bytes |-> fetches[i].body] \in localFiles
                  ELSE /\ fetches[i].status = 404
                       /\ fetches[i].error = "File not found in Drive or local storage"

\* C11 witness: drive.download failed for the file of an item stored in Drive.
C11_Witness ==
  \E i \in 1..Len(fetches) :
    /\ fetches[i].pc = "done"
    /\ fetches[i].thrown = "drive.download"
    /\ RowsOf(fetches[i].id) # { }
    /\ RowOf(fetches[i].id).drive_file_id # NULL

\* C12: a step in which a reclassify request arrives whose pillar is unknown,
\* or whose topic is not a topic of its pillar, answers 400 and leaves every
\* row of items, updated_at included, and the log as they were, whether or not
\* a row has the id.
C12_InvalidReclassifyChangesNothing ==
  [][ \A i \in 1..Len(patches') :
        ( /\ i > Len(patches)
          /\ patches'[i].kind = "reclassify"
          /\ ~InTaxonomy(patches'[i].body.pillar_id, patches'[i].body.topic_id) )
        => /\ patches'[i].resp.status = 400
           /\ items' = items
           /\ classification_log' = classification_log ]_vars

\* C12 witness: an invalid reclassify was refused for an item that exists and
\* was last written at an earlier second.
C12_Witness ==
  \E i \in 1..Len(patches) :
    /\ patches[i].kind = "reclassify"
    /\ patches[i].resp.status = 400
    /\ RowsOf(patches[i].id) # { }
    /\ RowOf(patches[i].id).updated_at < now

\* the changes of status the lifecycle lists
ListedTransitions ==
  { << "pending", "classifying" >>, << "classifying", "needs_api_key" >>,
    << "classifying", "classified" >>, << "classifying", "error" >>,
    << "classified", "confirmed" >>, << "error", "pending" >> }

\* C13: every step that changes the status of a row of items changes it along
\* one of the listed transitions; a confirm moves a row to confirmed from
\* classified only.
C13_StatusChangesAreListed ==
  [][ \A k \in 1..Len(items) :
        items'[k].status # items[k].status
          => << items[k].status, items'[k].status >> \in ListedTransitions ]_vars

\* a confirm that sends a summary and nothing else
SummaryOnly(body) ==
  /\ body.summary \notin {NULL, ""}
  /\ body = [NoBody EXCEPT !.summary = body.summary]

C16_SharingIsBestEffort ==
  \A b \in driveFiles :
    \E i \in 1..Len(uploads) :
      /\ uploads[i].drive_file_id = b.id
      /\ uploads[i].drive_url = BlobUrl(b.id)
      /\ uploads[i].called
      /\ uploads[i].thrown # "drive.upload"

\* C16 witness: an owner is configured, sharing a blob with the owner failed,
\* and the upload of that blob answered 201.
C16_Witness ==
  /\ IsSet(env.GOOGLE_DRIVE_OWNER_EMAIL)
  /\ \E b \in driveFiles :
       /\ ~b.shared
       /\ \E i \in 1..Len(uploads) :
            /\ uploads[i].drive_file_id = b.id
            /\ uploads[i].resp.status = 201

\* an upload of a PDF that pdf-parse could not read: extractText returned ''
UnreadablePdf(u) ==
  /\ u.id # NULL
  /\ u.mimetype = << "application/", "pdf" >>
  /\ u.text = EmptyText

\* C17 as stated: the text extracted from an uploaded PDF is never nothing:
\* it is the document's text or, when the document could not be parsed, a
\* diagnostic placeholder.
C17_PlaceholderForUnreadable ==
  \A i \in 1..Len(uploads) :
    ( /\ uploads[i].id # NULL
      /\ uploads[i].mimetype = << "application/", "pdf" >> )
    => uploads[i].text # EmptyText

\* C17: an upload of a document that could not be parsed has the empty text and
\* no placeholder; unless storing its file failed, the reasoning service was
\* called for it, and the prompt of its log entry has the file name in place
\* of the text; its row holds the empty text.
C17_UnreadableIsClassifiedByName ==
  \A i \in 1..Len(uploads) :
    UnreadablePdf(uploads[i]) =>
      /\ uploads[i].pc # "store"
           => ( uploads[i].called \/ uploads[i].thrown \in {"writeFileSync", "drive.upload"} )
      /\ uploads[i].thrown \in {"writeFileSync", "drive.upload"} => ~uploads[i].called
      /\ \A l \in LogOf(uploads[i].id) :
           /\ classification_log[l].prompt.text = NameText(uploads[i].original)
           /\ classification_log[l].prompt.filename = uploads[i].original
      /\ \A k \in RowsOf(uploads[i].id) : items[k].text = EmptyText
      /\ uploads[i].resp.status = 201 => LogOf(uploads[i].id) # { }

\* C17 witness: the upload of a PDF that could not be parsed answered 201.
C17_Witness ==
  \E i \in 1..Len(uploads) :
    /\ UnreadablePdf(uploads[i])
    /\ uploads[i].resp.status = 201

\* what C18 asks of the locals r of an upload or a single-video request: no
\* answer before the handler is done and one once it is; 201 only with the
\* item's row and its log entry in the tables; 500 only after something threw
AnsweredAfterPipeline(r) ==
  /\ r.pc # "done" <=> r.resp.status = 0
  /\ r.resp.status \in {0, 201, 400, 404, 500}
  /\ r.resp.status = 201
       => /\ r.id # NULL /\ r.resp.item = r.id
          /\ Cardinality(RowsOf(r.id)) = 1
          /\ Cardinality(LogOf(r.id)) = 1
  /\ r.resp.status = 500 <=> r.thrown # NULL

\* C18: an upload or a single-video request is answered only when its handler
\* is through: 201 after the item row and its log entry are inserted, 500
\* after its try block threw; and an answer, once given, is never given again
\* or changed.
C18_ResponseAfterPipeline ==
  /\ [](\A i \in 1..Len(uploads) : AnsweredAfterPipeline(uploads[i]))
  /\ [](\A i \in 1..Len(youtubes) : AnsweredAfterPipeline(youtubes[i]))
  /\ [][ /\ \A i \in 1..Len(uploads) :
              uploads[i].resp.status # 0 => uploads'[i] = uploads[i]
         /\ \A i \in 1..Len(youtubes) :
              youtubes[i].resp.status # 0 => youtubes'[i] = youtubes[i] ]_vars

\* C18 witness: an upload was answered 201 and a single-video request 500.
C18_Witness ==
  /\ \E i \in 1..Len(uploads) : uploads[i].resp.status = 201
  /\ \E i \in 1..Len(youtubes) :
       youtubes[i].resp.status = 500 /\ youtubes[i].thrown = "classify"

\* C19: with the reasoning service answering every call, a playlist request
\* that has answered its count is eventually through with its loop, having
\* gone through every fetched member once.
C19_BatchRunsToTheEnd ==
  \A i \in 1..MaxReqs :
    []( ( /\ i <= Len(playlists)
          /\ playlists[i].resp.status = 200 )
        => <>( /\ i <= Len(playlists)
               /\ playlists[i].pc = "finished"
               /\ Len(playlists[i].outcomes) = Len(playlists[i].items) ) )

\* the shorter of two lengths
Shorter(m, n) == IF m <= n THEN m ELSE n

\* the log entry of item id holds the first PromptCap characters of text
PromptCutOf(id, text) ==
  \A k \in 1..Len(classification_log) :
    classification_log[k].item_id = id
      => /\ classification_log[k].prompt.text = Slice(text, PromptCap)
         /\ classification_log[k].prompt.text.len = Shorter(text.len, PromptCap)

\* the text classify is called with for an upload (part_001:452)
HandedToClassify(u) == OrElse(u.text, NameText(u.original))

Contains(needle, hay) ==
  \E i \in 0..(Len(hay) - Len(needle)) :
    \A j \in 1..Len(needle) : AsciiLower(needle[j]) = AsciiLower(hay[i + j])

\* the row satisfies every filter the query supplies
Satisfies(row, q) ==
  /\ q.pillar = NULL \/ row.pillar_id = q.pillar
  /\ q.status = NULL \/ row.status = q.status
  /\ \/ q.search = << >>
     \/ row.summary # NULL /\ Contains(q.search, Spell(row.summary))
     \/ Contains(q.search, SpellTags(row.tags))
     \/ Contains(q.search, SpellAll(row.original))

\* C21: a listing holds exactly the items that satisfy every filter supplied
\* (all items when none is), each once, newest first.
C21_ListingIsExactlyTheMatches ==
  [][ listings' # listings
        => LET l == listings'[Len(listings')]
           IN  /\ { l.items[k].id : k \in 1..Len(l.items) }
                    = { items[k].id : k \in { n \in 1..Len(items) :
                                                Satisfies(items[n], l.query) } }
               /\ \A a, b \in 1..Len(l.items) :
                    a < b => /\ l.items[a].id # l.items[b].id
                             /\ l.items[a].created_at >= l.items[b].created_at
    ]_vars

\* C22: a row that appears in items appears with status pending or
\* classifying, whichever ingestion inserted it.
C22_RowsStartPendingOrClassifying ==
  [][ \A k \in 1..Len(items') :
        (\A j \in 1..Len(items) : items[j].id # items'[k].id)
          => items'[k].status \in {"pending", "classifying"}
    ]_vars

\* both values of the remote configuration are set
Configured == IsSet(env.GOOGLE_SERVICE_ACCOUNT_KEY) /\ IsSet(env.GOOGLE_DRIVE_FOLDER_ID)

\* an upload that got as far as the reasoning call was stored on the backend
\* chosen at start, the local one when the remote one was not chosen
StoredOnChosenBackend ==
  \A i \in 1..Len(uploads) :
    uploads[i].called
      => IF driveEnabled
           THEN uploads[i].drive_file_id # NULL
           ELSE /\ uploads[i].drive_file_id = NULL
                /\ \E f \in localFiles : f.name = uploads[i].filename

\* C23 as stated: the remote backend is chosen exactly when key and folder id
\* are set and the key parses; otherwise uploads are stored locally.
C23_RemoteIffConfiguredAndKeyParses ==
  /\ driveEnabled <=> (Configured /\ KeyParses(env.GOOGLE_SERVICE_ACCOUNT_KEY))
  /\ StoredOnChosenBackend

\* C23: the remote backend is chosen exactly when key and folder id are set,
\* the key parses and what it parses to is not null; otherwise uploads are
\* stored locally.
C23_RemoteIffConfiguredAndKeyIsAnObject ==
  /\ driveEnabled <=> ( /\ Configured
                        /\ KeyParses(env.GOOGLE_SERVICE_ACCOUNT_KEY)
                        /\ HasClientEmail(env.GOOGLE_SERVICE_ACCOUNT_KEY) )
  /\ StoredOnChosenBackend

\* started with a key that parses to null, the server answered an upload it
\* stored locally
C23_Witness ==
  /\ env.GOOGLE_SERVICE_ACCOUNT_KEY = NullText
  /\ ~driveEnabled
  /\ \E i \in 1..Len(uploads) :
       /\ uploads[i].resp.status = 201
       /\ uploads[i].drive_file_id = NULL
       /\ \E f \in localFiles : f.name = uploads[i].filename

\* the request the step answers is a confirm
ConfirmAnswered ==
  /\ Len(patches') = Len(patches) + 1
  /\ patches'[Len(patches')].kind = "confirm"

\* C24: confirm of an existing item sets its status to confirmed and its
\* updated_at to the time of the request and changes nothing else in that row,
\* no other row and no log entry; confirm of an unknown id answers 404 and
\* changes nothing.
C24_ConfirmTouchesStatusAndUpdatedAt ==
  [][ ConfirmAnswered
        => LET p == patches'[Len(patches')]
           IN  /\ classification_log' = classification_log
               /\ Len(items') = Len(items)
               /\ \A k \in 1..Len(items) :
                    items'[k] = IF items[k].id = p.id
                                  THEN [items[k] EXCEPT !.status = "confirmed",
                                                        !.updated_at = now]
                                  ELSE items[k]
               /\ p.resp.status = IF \E k \in 1..Len(items) : items[k].id = p.id
                                    THEN 200 ELSE 404
    ]_vars

\* an item was confirmed after the second it was created in, next to another
\* item that is still as it was classified
C24_Witness ==
  \E n \in 1..Len(patches) : \E k, j \in 1..Len(items) :
    /\ patches[n].kind = "confirm" /\ patches[n].resp.status = 200
    /\ items[k].id = patches[n].id
    /\ items[k].status = "confirmed"
    /\ items[k].updated_at > items[k].created_at
    /\ j # k
    /\ items[j].status = "classified"
    /\ items[j].updated_at = items[j].created_at

\* C25: once an upload has been answered, the file it wrote under UPLOAD_DIR
\* or the blob it left in the remote folder is the file of a row of items.
C25_StoredBlobsHaveRows ==
  \A i \in 1..Len(uploads) :
    uploads[i].pc = "done"
      => /\ \A f \in localFiles :
              f.name = uploads[i].filename
                => \E k \in 1..Len(items) : items[k].filename = f.name
         /\ \A b \in driveFiles :
              b.id = uploads[i].drive_file_id
                => \E k \in 1..Len(items) : items[k].drive_file_id = b.id

\* C26: a confirmed row never becomes classified or error afterwards, and its
\* pillar and topic are changed by nothing but another operator request.
C26_ConfirmIsNotUndone ==
  [][ \A k \in 1..Len(items) :
        items[k].status = "confirmed"
          => /\ k <= Len(items')
             /\ items'[k].status \notin {"classified", "error"}
             /\ patches' = patches
                  => /\ items'[k].pillar_id = items[k].pillar_id
                     /\ items'[k].topic_id = items[k].topic_id
    ]_vars

\* C27: the pillar_name of every row is the English name the taxonomy gives
\* its pillar_id, and its topic_name the name that pillar gives its topic_id.
C27_NamesAreTheTaxonomys ==
  \A k \in 1..Len(items) :
    /\ FindIndex(PILLARS, items[k].pillar_id) # 0
    /\ LET pillar == PILLARS[FindIndex(PILLARS, items[k].pillar_id)]
       IN  /\ items[k].pillar_name = pillar.name_en
           /\ FindIndex(pillar.topics, items[k].topic_id) # 0
           /\ items[k].topic_name
                = pillar.topics[FindIndex(pillar.topics, items[k].topic_id)].name

\* a row keeps the pillar its reply named, under another name than the reply
\* gave it
C27_Witness ==
  \E k \in 1..Len(items) : \E l \in LogOf(items[k].id) :
    /\ classification_log[l].response.pillar_id = items[k].pillar_id
    /\ classification_log[l].response.pillar_name # items[k].pillar_name

\* s is t or the beginning of t
IsPrefix(s, t) == Len(s) <= Len(t) /\ \A k \in 1..Len(s) : s[k] = t[k]

\* the loop of playlist request p is through with every member before the one
\* whose reasoning call it awaits: each has its outcome, and each that was
\* classified has its row and its log entry
EarlierMembersDone(p) ==
  /\ p.idx \in 1..Len(p.items)
  /\ Len(p.outcomes) = p.idx - 1
  /\ \A k \in 1..Len(p.outcomes) :
       p.outcomes[k] \notin {"caught", "uncaught"}
         => RowsOf(p.outcomes[k]) # { } /\ LogOf(p.outcomes[k]) # { }

\* C28: while the loop of a playlist awaits the reasoning call of a member it
\* is through with every member before it; and the loop moves forward only,
\* its outcomes growing in the order of the fetched list.
C28_OneMemberAtATimeInOrder ==
  /\ [](\A i \in 1..Len(playlists) :
          playlists[i].pc = "classify" => EarlierMembersDone(playlists[i]))
  /\ [][ \A i \in 1..Len(playlists) :
           /\ playlists'[i].idx >= playlists[i].idx
           /\ IsPrefix(playlists[i].outcomes, playlists'[i].outcomes)
           /\ playlists[i].pc = "classify" /\ playlists'[i].idx # playlists[i].idx
                => Len(playlists'[i].outcomes) >= playlists[i].idx
       ]_vars

\* the call for a second member is awaited after the first member's item and
\* log entry were written
C28_Witness ==
  \E i \in 1..Len(playlists) :
    /\ playlists[i].pc = "classify"
    /\ playlists[i].idx >= 2
    /\ \E k \in 1..Len(playlists[i].outcomes) :
         /\ playlists[i].outcomes[k] \notin {"caught", "uncaught"}
         /\ RowsOf(playlists[i].outcomes[k]) # { }
         /\ LogOf(playlists[i].outcomes[k]) # { }

\* the ids of the rows the playlist requests other than a set of them wrote,
\* with those the upload and video requests wrote
IdsHeldBut(failed) ==
  { uploads[i].id : i \in 1..Len(uploads) }
    \cup { youtubes[i].id : i \in 1..Len(youtubes) }
    \cup UNION { { playlists[i].outcomes[k] : k \in 1..Len(playlists[i].outcomes) } :
                 i \in (1..Len(playlists)) \ failed }

\* the playlist requests a page fetch of which failed
FailedFetching ==
  { i \in 1..Len(playlists) : playlists[i].thrown = "playlistItems.list" }

\* C29: a playlist request one of whose page fetches failed is answered 500,
\* its loop never starts, and no row or log entry is its: every row belongs to
\* another request, and the failing step and the steps after it leave the
\* request as it is.
C29_FailedFetchPersistsNothing ==
  /\ [](\A i \in FailedFetching :
          /\ playlists[i].pc = "done"
          /\ playlists[i].resp.status = 500
          /\ playlists[i].idx = 0
          /\ playlists[i].outcomes = << >>)
  /\ [](\A k \in 1..Len(items) : items[k].id \in IdsHeldBut(FailedFetching))
  /\ [](\A l \in 1..Len(classification_log) :
          classification_log[l].item_id \in IdsHeldBut(FailedFetching))
  /\ [][ \A i \in 1..Len(playlists) :
           /\ i \in FailedFetching => playlists'[i] = playlists[i]
           /\ playlists'[i].thrown = "playlistItems.list"
              /\ playlists[i].thrown # "playlistItems.list"
                => /\ items' = items
                   /\ classification_log' = classification_log
                   /\ openaiCalls' = openaiCalls
       ]_vars

\* the fetch of a later page failed after a page of members had arrived
C29_Witness ==
  \E i \in FailedFetching :
    /\ Len(playlists[i].items) >= 1
    /\ playlists[i].resp.status = 500

=============================================================================
